---- MODULE Spec2Model ----
(***************************************************************************)
(* Model of the recommendation ledger (backend/services/recommendations.py *)
(* with its router backend/routers/ai_synthesis.py), of the changelog      *)
(* (backend/services/changelog.py), of the funnel-impact windows and the   *)
(* cooling-off list (backend/services/funnel_impact.py) and of the cached  *)
(* budget recommendations (backend/services/data_loader.py).               *)
(*                                                                         *)
(* The specifications share the variables:                                 *)
(*   Spec           the ledger, every request handler one atomic step      *)
(*   SpecConc       the ledger, handlers split at load-file / save-file    *)
(*   SpecChangelog  the changelog, the clock, the TTL cache                *)
(*   SpecOutcome    recommendations._calculate_outcome on drawn arguments  *)
(*   SpecAssess     funnel_impact.calculate_impact / assess_funnel_impact  *)
(*   SpecCache      data_loader.cached and clear_cache                     *)
(*   SpecSummary    recommendations.get_recommendation_summary_for_llm     *)
(*   SpecDashboard  the changelog file written by both changelog modules   *)
(*   SpecCorrelation funnel_impact.calculate_signal_correlation            *)
(*   SpecScore      multi_signal.calculate_weighted_score                  *)
(*   SpecView       multi_signal.get_multi_signal_campaign_view            *)
(*   SpecPredictiveness funnel_impact.analyze_signal_predictiveness        *)
(***************************************************************************)
EXTENDS Integers, Sequences, FiniteSets, TLC

VARIABLES
    ledger,     \* content of ai_recommendations.json: a sequence of records
    micro,      \* number of recommendation ids generated (the microsecond clock)
    now,        \* wall clock, in ticks
    resp,       \* HTTP status of the last ledger request ("none" before any)
    ops,        \* number of steps taken so far
    pc,         \* SpecConc: per worker, "idle" or "loaded"
    loc,        \* SpecConc: per worker, the list it got from load_recommendations
    req,        \* SpecConc: per worker, the write it is executing
    acked,      \* SpecConc: the writes that have returned
    changelog,  \* content of changelog.json: a sequence of entries
    cache,      \* data_loader._cache: in SpecChangelog the entry of
                \* get_recently_actioned_items(days=3), in SpecCache the whole map
    budget,     \* ids returned by the last get_budget_recommendations call
    args,       \* pure-function specifications: the arguments of the call
    result,     \* pure-function specifications: what the call returned
    source,     \* SpecCache: version of the data the cached functions read
    correlation_data    \* content of signal_correlations.json

vars == <<ledger, micro, now, resp, ops, pc, loc, req, acked, changelog, cache, budget,
          args, result, source, correlation_data>>

ledgerVars == <<ledger, micro, resp>>
concVars == <<pc, loc, req, acked>>
changelogVars == <<changelog, cache, budget>>
fnVars == <<args, result, source, correlation_data>>

(***************************************************************************)
(* Bounds                                                                  *)
(***************************************************************************)
MaxOps == 4         \* steps of a behaviour
MaxEntries == 2     \* entries in the changelog file
StartDay == 31      \* the day on which a behaviour of SpecChangelog starts

(***************************************************************************)
(* Python values                                                           *)
(***************************************************************************)
NoneStr == "<None>"                     \* None where a string is optional
None == [some |-> FALSE, v |-> {}]      \* None where a dict is optional
Some(d) == [some |-> TRUE, v |-> d]
NoTime == [some |-> FALSE, t |-> 0]     \* None where a timestamp is optional
At(t) == [some |-> TRUE, t |-> t]

NoCache == [some |-> FALSE, v |-> {}, t |-> 0]     \* key not in _cache
NoCall == [called |-> FALSE, ids |-> {}, t |-> 0]   \* no answer since the last write
NoArgs == <<>>          \* no pure function is being called
NotReturned == <<>>     \* the call has not returned
Returned(v) == <<v>>    \* the call returned v
NoRecord == <<>>        \* signal_correlations.json does not exist

\* bool(s) of an optional string: None and "" are falsy
Truthy(s) == s # NoneStr /\ s # ""

\* a metrics dict is a set of <<key, value>> pairs; {} is the empty dict
Dict(mer, ncac, cam) == {<<"mer", mer>>, <<"ncac", ncac>>, <<"cam_per_order", cam>>}
Get(d, k, default) ==
    IF \E p \in d : p[1] = k THEN (CHOOSE p \in d : p[1] = k)[2] ELSE default

(***************************************************************************)
(* Time.  The clock counts ticks; a timestamp is the tick it was taken at, *)
(* its date (timestamp[:10]) the day the tick lies in.                     *)
(***************************************************************************)
TicksPerDay == 96
SecondsPerTick == 86400 \div TicksPerDay
Days(n) == n * TicksPerDay              \* timedelta(days=n)
DateOf(t) == t \div TicksPerDay         \* the date of a timestamp, as a day number
Midnight(day) == day * TicksPerDay      \* datetime.strptime(date, "%Y-%m-%d")
WholeDays(dt) == dt \div TicksPerDay    \* timedelta.days
\* how much time passes between two requests
TickInputs == {1, Days(1), Days(7)}

(***************************************************************************)
(* recommendations.py                                                      *)
(***************************************************************************)
Statuses == {"pending", "done", "ignored", "partial"}
Outcomes == {"pending", "positive", "negative", "neutral", "unknown"}

\* inputs of the requests
StatusInputs == Statuses \cup {"archived"}
DayOffsets == {7, 14}
SnapshotInputs == {{}, Dict(300, 2500, 1200)}
AfterInputs == {Dict(330, 2000, 1300), Dict(250, 3000, 1000), {<<"mer", 330>>}}
NoteInputs == {<<NoneStr, NoneStr>>, <<"paused campaign", "">>, <<"", "too risky">>}
ChangelogIdInputs == {1}

\* variant of calculate_outcome that reads ncac as "higher is better"
calculate_outcome_ncac_higher(before, after) ==
    LET mer_before == Get(before, "mer", 0)
        mer_after == Get(after, "mer", 0)
        ncac_before == Get(before, "ncac", 0)
        ncac_after == Get(after, "ncac", 0)
        cam_before == Get(before, "cam_per_order", 0)
        cam_after == Get(after, "cam_per_order", 0)
        mer_improved == mer_after * 100 > mer_before * 105
        mer_declined == mer_after * 100 < mer_before * 95
        ncac_improved == ncac_after * 100 > ncac_before * 105
        ncac_worsened == ncac_after * 100 < ncac_before * 95
        cam_improved == cam_after * 100 > cam_before * 105
        cam_declined == cam_after * 100 < cam_before * 95
        B(b) == IF b THEN 1 ELSE 0
        positive_signals == B(mer_improved) + B(ncac_improved) + B(cam_improved)
        negative_signals == B(mer_declined) + B(ncac_worsened) + B(cam_declined)
    IN  IF positive_signals >= 2 /\ negative_signals = 0 THEN "positive"
        ELSE IF negative_signals >= 2 /\ positive_signals = 0 THEN "negative"
        ELSE IF positive_signals > negative_signals THEN "positive"
        ELSE IF negative_signals > positive_signals THEN "negative"
        ELSE "neutral"

\* _calculate_outcome: the 5% thresholds are *1.05 and *0.95, here in hundredths
calculate_outcome(before, after) ==
    LET mer_before == Get(before, "mer", 0)
        mer_after == Get(after, "mer", 0)
        ncac_before == Get(before, "ncac", 0)
        ncac_after == Get(after, "ncac", 0)
        cam_before == Get(before, "cam_per_order", 0)
        cam_after == Get(after, "cam_per_order", 0)
        mer_improved == mer_after * 100 > mer_before * 105
        mer_declined == mer_after * 100 < mer_before * 95
        ncac_improved == ncac_after * 100 < ncac_before * 95
        ncac_worsened == ncac_after * 100 > ncac_before * 105
        cam_improved == cam_after * 100 > cam_before * 105
        cam_declined == cam_after * 100 < cam_before * 95
        B(b) == IF b THEN 1 ELSE 0
        positive_signals == B(mer_improved) + B(ncac_improved) + B(cam_improved)
        negative_signals == B(mer_declined) + B(ncac_worsened) + B(cam_declined)
    IN  IF positive_signals >= 2 /\ negative_signals = 0 THEN "positive"
        ELSE IF negative_signals >= 2 /\ positive_signals = 0 THEN "negative"
        ELSE IF positive_signals > negative_signals THEN "positive"
        ELSE IF negative_signals > positive_signals THEN "negative"
        ELSE "neutral"

\* the record add_recommendation builds
NewRecommendation(id, created, metrics) ==
    [id |-> id,
     created_at |-> created,
     metrics_at_recommendation |-> metrics,
     status |-> "pending",
     status_updated_at |-> NoTime,
     action_taken |-> NoneStr,
     reason_not_followed |-> NoneStr,
     metrics_after |-> [d \in DayOffsets |-> None],
     outcome |-> "pending",
     linked_changelog_entries |-> <<>>]

\* variant of FindRec that keeps the loop variable after the loop: the last record
FindRec_or_last(L, id) ==
    IF \E i \in 1..Len(L) : L[i].id = id
    THEN CHOOSE i \in 1..Len(L) : L[i].id = id /\ \A j \in 1..(i - 1) : L[j].id # id
    ELSE Len(L)

\* "for rec in recommendations: if rec["id"] == recommendation_id": first match, 0 if none
FindRec(L, id) ==
    IF \E i \in 1..Len(L) : L[i].id = id
    THEN CHOOSE i \in 1..Len(L) : L[i].id = id /\ \A j \in 1..(i - 1) : L[j].id # id
    ELSE 0

add_recommendation_list(L, id, created, metrics) ==
    Append(L, NewRecommendation(id, created, metrics))

\* variant of StatusUpdated that treats done and ignored as final
StatusUpdated_final(rec, status, action_taken, reason_not_followed, t) ==
    IF rec.status \in {"done", "ignored"} THEN rec
    ELSE [rec EXCEPT !.status = status,
                     !.status_updated_at = At(t),
                     !.action_taken = IF Truthy(action_taken) THEN action_taken ELSE @,
                     !.reason_not_followed =
                         IF Truthy(reason_not_followed) THEN reason_not_followed ELSE @]

StatusUpdated(rec, status, action_taken, reason_not_followed, t) ==
    [rec EXCEPT !.status = status,
                !.status_updated_at = At(t),
                !.action_taken = IF Truthy(action_taken) THEN action_taken ELSE @,
                !.reason_not_followed =
                    IF Truthy(reason_not_followed) THEN reason_not_followed ELSE @]

update_recommendation_status(L, id, status, action_taken, reason_not_followed, t) ==
    LET i == FindRec(L, id)
    IN  IF i = 0 THEN L
        ELSE [L EXCEPT ![i] = StatusUpdated(@, status, action_taken, reason_not_followed, t)]

\* variants of OutcomeRecorded with a slip in them
OutcomeRecorded_rebase(rec, metrics_after, days_after) ==
    [rec EXCEPT !.metrics_after[days_after] = Some(metrics_after),
                !.metrics_at_recommendation = metrics_after,
                !.outcome =
                    IF days_after = 7 /\ rec.metrics_at_recommendation # {}
                    THEN calculate_outcome(rec.metrics_at_recommendation, metrics_after)
                    ELSE @]

OutcomeRecorded_vs_previous(rec, metrics_after, days_after) ==
    [rec EXCEPT !.metrics_after[days_after] = Some(metrics_after),
                !.outcome =
                    IF days_after = 7 /\ rec.metrics_at_recommendation # {}
                    THEN calculate_outcome(
                            IF rec.metrics_after[7].some THEN rec.metrics_after[7].v
                            ELSE rec.metrics_at_recommendation,
                            metrics_after)
                    ELSE @]

OutcomeRecorded_any_day(rec, metrics_after, days_after) ==
    [rec EXCEPT !.metrics_after[days_after] = Some(metrics_after),
                !.outcome =
                    IF rec.metrics_at_recommendation # {}
                    THEN calculate_outcome(rec.metrics_at_recommendation, metrics_after)
                    ELSE @]

OutcomeRecorded(rec, metrics_after, days_after) ==
    [rec EXCEPT !.metrics_after[days_after] = Some(metrics_after),
                !.outcome =
                    IF days_after = 7 /\ rec.metrics_at_recommendation # {}
                    THEN calculate_outcome(rec.metrics_at_recommendation, metrics_after)
                    ELSE @]

record_outcome(L, id, metrics_after, days_after) ==
    LET i == FindRec(L, id)
    IN  IF i = 0 THEN L
        ELSE [L EXCEPT ![i] = OutcomeRecorded(@, metrics_after, days_after)]

ChangelogLinked(rec, changelog_entry_id, t) ==
    [rec EXCEPT !.linked_changelog_entries = Append(@, changelog_entry_id),
                !.status = "done",
                !.status_updated_at = At(t)]

link_changelog_to_recommendation(L, changelog_entry_id, id, t) ==
    LET i == FindRec(L, id)
    IN  IF i = 0 THEN L
        ELSE [L EXCEPT ![i] = ChangelogLinked(@, changelog_entry_id, t)]

OUTCOME_CHECK_DAYS == 7

\* variant of NeedsOutcomeCheck that wants more than 7 whole days
NeedsOutcomeCheck_strict(rec, t) ==
    /\ rec.status \in {"done", "partial"}
    /\ ~rec.metrics_after[7].some
    /\ rec.status_updated_at.some
    /\ WholeDays(t - rec.status_updated_at.t) > OUTCOME_CHECK_DAYS

\* the loop body of get_recommendations_needing_outcome_check: is rec appended
NeedsOutcomeCheck(rec, t) ==
    /\ rec.status \in {"done", "partial"}
    /\ ~rec.metrics_after[7].some
    /\ rec.status_updated_at.some
    /\ WholeDays(t - rec.status_updated_at.t) >= OUTCOME_CHECK_DAYS

\* the returned list: the selected records, each with days_since_action added
get_recommendations_needing_outcome_check(L, t) ==
    LET needing == SelectSeq(L, LAMBDA rec : NeedsOutcomeCheck(rec, t))
    IN  [i \in 1..Len(needing) |->
            [rec |-> needing[i],
             days_since_action |-> WholeDays(t - needing[i].status_updated_at.t)]]

\* "if not result: raise HTTPException(status_code=404)": the service returns None
\* exactly when no record has the id
Response(L, id) == IF FindRec(L, id) = 0 THEN "404" ELSE "200"

\* ids a request can carry: every id generated so far and one that never is
IdInputs == 0..MaxOps

(***************************************************************************)
(* Spec: the ledger's request handlers, each one atomic step               *)
(***************************************************************************)
Step == ops < MaxOps /\ ops' = ops + 1

\* ai_synthesis.generate_synthesis saving a recommendation
add_recommendation(metrics) ==
    /\ Step
    /\ ledger' = add_recommendation_list(ledger, micro, now, metrics)
    /\ micro' = micro + 1
    /\ resp' = "200"
    /\ UNCHANGED <<fnVars, now, concVars, changelogVars>>

\* variant of update_status without the check of the status value
update_status_unchecked(id, status, action_taken, reason_not_followed) ==
    /\ Step
    /\ ledger' = update_recommendation_status(
                    ledger, id, status, action_taken, reason_not_followed, now)
    /\ resp' = Response(ledger, id)
    /\ UNCHANGED <<fnVars, micro, now, concVars, changelogVars>>

\* PUT /recommendations/{id}/status
update_status(id, status, action_taken, reason_not_followed) ==
    /\ Step
    /\ IF status \notin Statuses
       THEN resp' = "400" /\ ledger' = ledger
       ELSE /\ ledger' = update_recommendation_status(
                            ledger, id, status, action_taken, reason_not_followed, now)
            /\ resp' = Response(ledger, id)
    /\ UNCHANGED <<fnVars, micro, now, concVars, changelogVars>>

\* POST /recommendations/{id}/record-outcome
record_recommendation_outcome(id, metrics_after, days_after) ==
    /\ Step
    /\ ledger' = record_outcome(ledger, id, metrics_after, days_after)
    /\ resp' = Response(ledger, id)
    /\ UNCHANGED <<fnVars, micro, now, concVars, changelogVars>>

\* POST /recommendations/{id}/link-changelog
link_to_changelog(id, changelog_entry_id) ==
    /\ Step
    /\ ledger' = link_changelog_to_recommendation(ledger, changelog_entry_id, id, now)
    /\ resp' = Response(ledger, id)
    /\ UNCHANGED <<fnVars, micro, now, concVars, changelogVars>>

\* time passes between requests
Tick(dt) ==
    /\ Step
    /\ now' = now + dt
    /\ UNCHANGED <<fnVars, ledgerVars, concVars, changelogVars>>

Init ==
    /\ ledger = <<>>
    /\ micro = 0
    /\ now = 0
    /\ resp = "none"
    /\ ops = 0
    /\ pc = <<>>
    /\ loc = <<>>
    /\ req = <<>>
    /\ acked = {}
    /\ changelog = <<>>
    /\ cache = NoCache
    /\ budget = NoCall
    /\ args = NoArgs
    /\ result = NotReturned
    /\ source = 0
    /\ correlation_data = NoRecord

Next ==
    \/ \E m \in SnapshotInputs : add_recommendation(m)
    \/ \E id \in IdInputs, s \in StatusInputs, n \in NoteInputs :
            update_status(id, s, n[1], n[2])
    \/ \E id \in IdInputs, m \in AfterInputs, d \in DayOffsets :
            record_recommendation_outcome(id, m, d)
    \/ \E id \in IdInputs, c \in ChangelogIdInputs : link_to_changelog(id, c)
    \/ \E dt \in TickInputs : Tick(dt)

Spec == Init /\ [][Next]_vars

(***************************************************************************)
(* Claims on Spec                                                          *)
(***************************************************************************)

\* C1: once record_outcome(id, metrics, 7) has stored metrics_after_7d and computed
\* the outcome of a recommendation, no later ledger operation changes that
\* recommendation's outcome or its stored metrics_after_7d.
C1_OutcomeImmutable ==
    [][\A i \in 1..Len(ledger) :
          (ledger[i].metrics_after[7].some /\ ledger[i].metrics_at_recommendation # {})
          => /\ i <= Len(ledger')
             /\ ledger'[i].outcome = ledger[i].outcome
             /\ ledger'[i].metrics_after[7] = ledger[i].metrics_after[7]]_vars

\* C8: add_recommendation creates the record with status pending and outcome pending,
\* and no later operation, on this or another id, removes a record or changes its id,
\* its created_at or its metrics_at_recommendation snapshot.
C8_SnapshotImmutable ==
    [][/\ Len(ledger') >= Len(ledger)
       /\ \A i \in 1..Len(ledger) :
             /\ ledger'[i].id = ledger[i].id
             /\ ledger'[i].created_at = ledger[i].created_at
             /\ ledger'[i].metrics_at_recommendation = ledger[i].metrics_at_recommendation
       /\ \A i \in (Len(ledger) + 1)..Len(ledger') :
             ledger'[i].status = "pending" /\ ledger'[i].outcome = "pending"]_vars

\* C8 witness: two recommendations, one of them linked to a changelog entry (status
\* done) with a computed outcome, its snapshot still the one it was created with.
C8_Witness ==
    /\ Len(ledger) = 2
    /\ \E i \in 1..Len(ledger) :
          /\ ledger[i].status = "done"
          /\ ledger[i].linked_changelog_entries # <<>>
          /\ ledger[i].outcome \in {"positive", "negative", "neutral"}
          /\ ledger[i].metrics_at_recommendation = Dict(300, 2500, 1200)

\* C9: record_outcome is idempotent at days_after = 7: on every reachable ledger,
\* for every id and metrics, applying it twice gives the ledger that applying it
\* once gives.
C9_RecordOutcomeIdempotent ==
    \A id \in IdInputs, m \in AfterInputs :
        record_outcome(record_outcome(ledger, id, m, 7), id, m, 7)
            = record_outcome(ledger, id, m, 7)

\* C9 witness: a 7-day outcome has been recorded and computed, and recording another
\* outcome for that recommendation would change it (so the second call of a pair is
\* not a no-op because nothing can change).
C9_Witness ==
    \E i \in 1..Len(ledger) :
        /\ resp = "200"
        /\ ledger[i].metrics_after[7].some
        /\ ledger[i].outcome = "positive"
        /\ \E m \in AfterInputs : record_outcome(ledger, ledger[i].id, m, 7) # ledger

\* C10: a status-update request whose status is outside {pending, done, ignored,
\* partial} is answered 400 and leaves the ledger unchanged, and every stored
\* recommendation's status is always in {pending, done, ignored, partial}.
C10_InvalidStatusRejected ==
    /\ [](\A i \in 1..Len(ledger) : ledger[i].status \in Statuses)
    /\ [][\A id \in IdInputs, s \in StatusInputs \ Statuses, n \in NoteInputs :
            update_status(id, s, n[1], n[2]) => (ledger' = ledger /\ resp' = "400")]_vars

\* C10 witness: an invalid status was rejected for a ledger that holds a
\* recommendation whose status has been updated before.
C10_Witness ==
    /\ resp = "400"
    /\ \E i \in 1..Len(ledger) : ledger[i].status_updated_at.some

\* C11: update_recommendation_status, record_outcome and link_changelog_to_recommendation
\* called with an id that is not in the ledger answer not found (404) and leave the
\* stored ledger unchanged.
C11_UnknownIdNotFound ==
    /\ [](\A id \in IdInputs :
            (\A i \in 1..Len(ledger) : ledger[i].id # id) =>
                /\ Response(ledger, id) = "404"
                /\ \A st \in Statuses, n \in NoteInputs :
                      update_recommendation_status(ledger, id, st, n[1], n[2], now) = ledger
                /\ \A m \in AfterInputs, d \in DayOffsets :
                      record_outcome(ledger, id, m, d) = ledger
                /\ \A c \in ChangelogIdInputs :
                      link_changelog_to_recommendation(ledger, c, id, now) = ledger)
    /\ [][resp' = "404" => ledger' = ledger]_vars

\* C11 witness: a request with an unknown id was answered 404 while the ledger holds
\* a recommendation (the last one) that a write would have changed.
C11_Witness ==
    /\ resp = "404"
    /\ Len(ledger) >= 1
    /\ ledger[Len(ledger)].status = "pending"
    /\ ledger[Len(ledger)].linked_changelog_entries = <<>>
    /\ ~ledger[Len(ledger)].metrics_after[7].some

\* C19: update_recommendation_status on an existing id accepts a transition from any
\* current status to any status of the enum, stores the requested status and sets
\* status_updated_at to the time of the call.
C19_AnyToAnyTransition ==
    /\ [](\A i \in 1..Len(ledger), s \in Statuses, n \in NoteInputs :
            LET L2 == update_recommendation_status(ledger, ledger[i].id, s, n[1], n[2], now)
            IN  /\ Len(L2) = Len(ledger)
                /\ L2[i].status = s
                /\ L2[i].status_updated_at = At(now))
    /\ [][Len(ledger') = Len(ledger) =>
            \A i \in 1..Len(ledger) :
                ledger'[i].status # ledger[i].status =>
                    /\ resp' = "200"
                    /\ ledger'[i].status \in Statuses
                    /\ ledger'[i].status_updated_at = At(now)]_vars

\* C19 witness: a recommendation that was marked done with an action and ignored with
\* a reason has been set back to pending by the request just answered.
C19_Witness ==
    /\ resp = "200"
    /\ now > 0
    /\ \E i \in 1..Len(ledger) :
            /\ ledger[i].status = "pending"
            /\ ledger[i].status_updated_at = At(now)
            /\ Truthy(ledger[i].action_taken)
            /\ Truthy(ledger[i].reason_not_followed)

\* C30: every recommendation whose outcome is not pending has metrics_after_7d
\* recorded and a non-empty metrics_at_recommendation snapshot, and its outcome is one
\* of positive, negative, neutral; record_outcome with days_after other than 7 never
\* changes an outcome.
C30_OutcomeHasEvidence ==
    /\ \A i \in 1..Len(ledger) :
            ledger[i].outcome # "pending" =>
                /\ ledger[i].metrics_after[7].some
                /\ ledger[i].metrics_at_recommendation # {}
                /\ ledger[i].outcome \in {"positive", "negative", "neutral"}
    /\ \A i \in 1..Len(ledger), m \in AfterInputs, d \in DayOffsets \ {7} :
            LET L2 == record_outcome(ledger, ledger[i].id, m, d)
            IN  /\ L2[i].metrics_after[d] = Some(m)
                /\ \A j \in 1..Len(ledger) : L2[j].outcome = ledger[j].outcome

\* C30 witness: one recommendation has a computed outcome; another one, created with
\* a snapshot, has 14-day metrics recorded and its outcome still pending.
C30_Witness ==
    /\ \E i \in 1..Len(ledger) : ledger[i].outcome # "pending"
    /\ \E i \in 1..Len(ledger) :
            /\ ledger[i].metrics_after[14].some
            /\ ledger[i].metrics_at_recommendation # {}
            /\ ledger[i].outcome = "pending"

\* C13: get_recommendations_needing_outcome_check returns exactly the recommendations
\* whose status is done or partial, that have no metrics_after_7d and whose
\* status_updated_at is at least 7 days before now, each once, and no other.
C13_OutcomeCheckExact ==
    LET r == get_recommendations_needing_outcome_check(ledger, now)
        due == {i \in 1..Len(ledger) :
                    /\ ledger[i].status = "done" \/ ledger[i].status = "partial"
                    /\ ledger[i].metrics_after[7] = None
                    /\ ledger[i].status_updated_at.some
                    /\ ledger[i].status_updated_at.t + Days(7) <= now}
    IN  /\ {r[k].rec : k \in 1..Len(r)} = {ledger[i] : i \in due}
        /\ Len(r) = Cardinality(due)
        /\ \A k \in 1..Len(r) : r[k].days_since_action >= 7

\* C13 witness: one recommendation acted upon exactly 7 days ago is returned while
\* another one of the ledger (still pending) is not.
C13_Witness ==
    LET r == get_recommendations_needing_outcome_check(ledger, now)
    IN  /\ Len(ledger) = 2
        /\ Len(r) = 1
        /\ r[1].rec.status_updated_at.t + Days(7) = now

(***************************************************************************)
(* SpecConc: two workers serve ledger writes; each write is the code's     *)
(* load_recommendations() ... save_recommendations() with nothing that     *)
(* excludes another worker in between (there is no lock in the module).    *)
(***************************************************************************)
Workers == {1, 2}

\* the writes a worker can be asked for
WriteInputs ==
    {[kind |-> "add", id |-> 0, arg |-> m] : m \in SnapshotInputs \ {{}}}
    \cup {[kind |-> "status", id |-> id, arg |-> s] :
                id \in {0, 1}, s \in {"done", "ignored"}}
    \cup {[kind |-> "outcome", id |-> id, arg |-> m] :
                id \in {0, 1}, m \in {Dict(330, 2000, 1300)}}
    \cup {[kind |-> "link", id |-> id, arg |-> c] :
                id \in {0, 1}, c \in ChangelogIdInputs}

\* what the write makes of the list the worker loaded
Modified(L, w, id, t) ==
    CASE w.kind = "add" -> add_recommendation_list(L, id, t, w.arg)
      [] w.kind = "status" -> update_recommendation_status(L, w.id, w.arg, NoneStr, NoneStr, t)
      [] w.kind = "outcome" -> record_outcome(L, w.id, w.arg, 7)
      [] w.kind = "link" -> link_changelog_to_recommendation(L, w.arg, w.id, t)

\* the handler's first statement: recommendations = load_recommendations()
Load(p, w) ==
    /\ Step
    /\ pc[p] = "idle"
    /\ pc' = [pc EXCEPT ![p] = "loaded"]
    /\ loc' = [loc EXCEPT ![p] = ledger]
    /\ req' = [req EXCEPT ![p] = w]
    /\ UNCHANGED <<fnVars, ledger, micro, now, resp, acked, changelogVars>>

\* the rest of the handler: change the loaded list, save_recommendations(), return;
\* an id that is not in the loaded list returns without saving
Save(p) ==
    /\ Step
    /\ pc[p] = "loaded"
    /\ LET w == req[p]
           isAdd == w.kind = "add"
       IN  /\ IF ~isAdd /\ FindRec(loc[p], w.id) = 0
              THEN ledger' = ledger /\ resp' = "404" /\ acked' = acked
              ELSE /\ ledger' = Modified(loc[p], w, micro, now)
                   /\ resp' = "200"
                   /\ acked' = acked \cup {IF isAdd THEN [w EXCEPT !.id = micro] ELSE w}
           /\ micro' = IF isAdd THEN micro + 1 ELSE micro
    /\ pc' = [pc EXCEPT ![p] = "idle"]
    /\ UNCHANGED <<fnVars, loc, req, now, changelogVars>>

\* two recommendations are on file when the workers start
InitConc ==
    /\ ledger = <<NewRecommendation(0, 0, Dict(300, 2500, 1200)),
                  NewRecommendation(1, 0, Dict(300, 2500, 1200))>>
    /\ micro = 2
    /\ now = 1
    /\ resp = "none"
    /\ ops = 0
    /\ pc = [p \in Workers |-> "idle"]
    /\ loc = [p \in Workers |-> <<>>]
    /\ req = [p \in Workers |-> [kind |-> "none", id |-> 0, arg |-> 0]]
    /\ acked = {}
    /\ changelog = <<>>
    /\ cache = NoCache
    /\ budget = NoCall
    /\ args = NoArgs
    /\ result = NotReturned
    /\ source = 0
    /\ correlation_data = NoRecord

NextConc ==
    \/ \E p \in Workers, w \in WriteInputs : Load(p, w)
    \/ \E p \in Workers : Save(p)

SpecConc == InitConc /\ [][NextConc]_vars

\* the stored ledger shows the write w
Reflected(w) ==
    LET i == FindRec(ledger, w.id)
        \* another returned write to the same field of the same recommendation
        Overwritable(kinds) ==
            \E o \in acked : o # w /\ o.id = w.id /\ o.kind \in kinds
    IN  /\ i # 0
        /\ CASE w.kind = "add" -> TRUE
              [] w.kind = "status" ->
                    ledger[i].status = w.arg \/ Overwritable({"status", "link"})
              [] w.kind = "outcome" -> ledger[i].metrics_after[7] = Some(w.arg)
              [] w.kind = "link" ->
                    \E k \in 1..Len(ledger[i].linked_changelog_entries) :
                        ledger[i].linked_changelog_entries[k] = w.arg

\* C2: whenever no ledger write is in progress, the stored ledger reflects every
\* write that has returned, whatever the interleaving of the writers' load-file and
\* save-file steps (no lost update).
C2_NoLostUpdate ==
    (\A p \in Workers : pc[p] = "idle") => \A w \in acked : Reflected(w)

(***************************************************************************)
(* changelog.py                                                            *)
(***************************************************************************)
\* "meta" in channel.lower(), "google" in channel.lower()
NamesMeta(channel) == channel \in {"Meta Ads"}
NamesGoogle(channel) == channel \in {"Google Ads"}

\* what a request to log a change names, and how long before the request the change
\* was made (0: the request leaves the timestamp out): <<channel, campaign, age>>
AddInputs ==
    {<<"Meta Ads", "Spring Sale", 0>>, <<"Meta Ads", "Spring Sale", Days(2)>>,
     <<"Klaviyo", NoneStr, Days(2)>>, <<"Google Ads", NoneStr, Days(3) + 1>>,
     <<NoneStr, "Brand Search", Days(10)>>, <<"Meta Ads", "Spring Sale", Days(30) - 1>>}
\* the fields an edit request carries: <<channel, campaign, days to move the timestamp back>>
EditInputs == {<<"Google Ads", NoneStr, 0>>, <<NoneStr, "Brand Search", 0>>,
               <<NoneStr, NoneStr, 1>>}
EntryIdInputs == 1..(MaxEntries + 1)

RECURSIVE MaxId(_)
\* max((e.get("id", 0) for e in entries), default=0)
MaxId(entries) ==
    IF entries = <<>> THEN 0
    ELSE LET m == MaxId(Tail(entries))
         IN  IF Head(entries).id > m THEN Head(entries).id ELSE m

\* variant of add_entry_list that puts the newest entry first
add_entry_list_prepend(entries, timestamp, channel, campaign) ==
    <<[id |-> MaxId(entries) + 1, timestamp |-> timestamp,
       channel |-> channel, campaign |-> campaign]>> \o entries

add_entry_list(entries, timestamp, channel, campaign) ==
    Append(entries, [id |-> MaxId(entries) + 1, timestamp |-> timestamp,
                     channel |-> channel, campaign |-> campaign])

delete_entry_list(entries, entry_id) ==
    SelectSeq(entries, LAMBDA e : e.id # entry_id)

FindEntry(entries, entry_id) ==
    IF \E i \in 1..Len(entries) : entries[i].id = entry_id
    THEN CHOOSE i \in 1..Len(entries) :
            entries[i].id = entry_id /\ \A j \in 1..(i - 1) : entries[j].id # entry_id
    ELSE 0

\* channel, campaign: NoneStr for a field the request leaves out; timestamp: NoTime
update_entry_list(entries, entry_id, channel, campaign, timestamp) ==
    LET i == FindEntry(entries, entry_id)
    IN  IF i = 0 THEN entries
        ELSE [entries EXCEPT ![i] =
                [@ EXCEPT !.channel = IF channel # NoneStr THEN channel ELSE @,
                          !.campaign = IF campaign # NoneStr THEN campaign ELSE @,
                          !.timestamp = IF timestamp.some THEN timestamp.t ELSE @]]

\* entries.sort(key=timestamp, reverse=True): stable, newest first
InsertDesc(S, e) ==
    LET k == Cardinality({i \in 1..Len(S) : S[i].timestamp >= e.timestamp})
    IN  SubSeq(S, 1, k) \o <<e>> \o SubSeq(S, k + 1, Len(S))

RECURSIVE SortDesc(_)
SortDesc(entries) ==
    IF entries = <<>> THEN <<>>
    ELSE InsertDesc(SortDesc(SubSeq(entries, 1, Len(entries) - 1)), entries[Len(entries)])

get_recent_entries(entries, t, days, limit) ==
    LET sorted == SortDesc(entries)
        cutoff == t - Days(days)
        kept == IF days # 0
                THEN SelectSeq(sorted, LAMBDA e : e.timestamp >= cutoff)
                ELSE sorted
    IN  SubSeq(kept, 1, IF Len(kept) < limit THEN Len(kept) ELSE limit)

Range(S) == {S[i] : i \in 1..Len(S)}

(***************************************************************************)
(* funnel_impact.py: tracking windows and cooling off                      *)
(***************************************************************************)
TRACKING_WINDOWS == {3, 7, 14, 30}
COOLING_OFF_DAYS == 3
BASELINE_DAYS == 7
CoolingOffLimit == 100

\* variant of ImpactWindow that wants more than window_days whole days
ImpactWindow_strict(change_date, days_since_change, window_days) ==
    IF days_since_change > window_days
    THEN [status |-> "complete",
          days_since_change |-> days_since_change,
          baseline_period |-> <<change_date - BASELINE_DAYS, change_date - 1>>,
          after_period |-> <<change_date, change_date + (window_days - 1)>>]
    ELSE [status |-> "pending",
          days_since_change |-> days_since_change,
          days_remaining |-> window_days - days_since_change,
          available_on |-> change_date + window_days]

\* variant of ImpactWindow whose baseline is as long as the window and ends today
ImpactWindow_trailing(change_date, days_since_change, window_days) ==
    IF days_since_change >= window_days
    THEN [status |-> "complete",
          days_since_change |-> days_since_change,
          baseline_period |-> <<change_date - window_days, change_date - 1>>,
          after_period |-> <<change_date + days_since_change - (window_days - 1),
                             change_date + days_since_change>>]
    ELSE [status |-> "pending",
          days_since_change |-> days_since_change,
          days_remaining |-> window_days - days_since_change,
          available_on |-> change_date + window_days]

\* variant of ImpactWindow that announces a pending window one day late
ImpactWindow_late(change_date, days_since_change, window_days) ==
    IF days_since_change >= window_days
    THEN [status |-> "complete",
          days_since_change |-> days_since_change,
          baseline_period |-> <<change_date - BASELINE_DAYS, change_date - 1>>,
          after_period |-> <<change_date, change_date + (window_days - 1)>>]
    ELSE [status |-> "pending",
          days_since_change |-> days_since_change,
          days_remaining |-> window_days - days_since_change,
          available_on |-> change_date + window_days + 1]

\* the body of "for window_days in TRACKING_WINDOWS"; periods are <<first day, last day>>
ImpactWindow(change_date, days_since_change, window_days) ==
    IF days_since_change >= window_days
    THEN [status |-> "complete",
          days_since_change |-> days_since_change,
          baseline_period |-> <<change_date - BASELINE_DAYS, change_date - 1>>,
          after_period |-> <<change_date, change_date + (window_days - 1)>>]
    ELSE [status |-> "pending",
          days_since_change |-> days_since_change,
          days_remaining |-> window_days - days_since_change,
          available_on |-> change_date + window_days]

get_change_impact_status(change_entry, t) ==
    LET change_date == DateOf(change_entry.timestamp)
        days_since_change == WholeDays(t - Midnight(change_date))
    IN  [change_id |-> change_entry.id,
         change_date |-> change_date,
         channel |-> change_entry.channel,
         campaign |-> change_entry.campaign,
         days_since_change |-> days_since_change,
         windows |-> [w \in TRACKING_WINDOWS |->
                        ImpactWindow(change_date, days_since_change, w)]]

get_items_in_cooling_off(entries, t, days) ==
    LET recent == get_recent_entries(entries, t, days, CoolingOffLimit)
    IN  [channels |->
            {"Meta" : e \in {x \in Range(recent) : Truthy(x.channel) /\ NamesMeta(x.channel)}}
            \cup {"Google" : e \in {x \in Range(recent) :
                                        Truthy(x.channel) /\ NamesGoogle(x.channel)}},
         campaigns |-> {e.campaign : e \in {x \in Range(recent) : Truthy(x.campaign)}},
         entries |-> [i \in 1..Len(recent) |->
                        [id |-> recent[i].id, date |-> DateOf(recent[i].timestamp),
                         channel |-> recent[i].channel, campaign |-> recent[i].campaign]]]

ImpactsDays == 30
ImpactsLimit == 50
\* the analysis types the docstring of get_changes_needing_followup names
ModeInputs == {"quick", "full"}

\* get_all_change_impacts when it is computed (no cached value younger than 900 s);
\* get_recent_entries returns the entries newest first, so the stable sort by change
\* date, descending, leaves them in place
get_all_change_impacts(entries, t, days) ==
    LET recent == get_recent_entries(entries, t, days, ImpactsLimit)
    IN  [i \in 1..Len(recent) |-> get_change_impact_status(recent[i], t)]

\* min(windows[w].available_on for w in pending_windows)
MinAvailable(impact, pending_windows) ==
    CHOOSE d \in {impact.windows[w].available_on : w \in pending_windows} :
        \A w \in pending_windows : d <= impact.windows[w].available_on

\* the three lists as sets; an item of action_ready or validation_ready is
\* <<change id, window>>
get_changes_needing_followup(entries, t, analysis_type) ==
    LET all_impacts == Range(get_all_change_impacts(entries, t, ImpactsDays))
        Complete(impact, w) == impact.windows[w].status = "complete"
        PendingWindows(impact) ==
            {w \in TRACKING_WINDOWS : impact.windows[w].status = "pending"}
    IN  [action_ready |->
            {<<x.change_id, 3>> : x \in {y \in all_impacts :
                    Complete(y, 3) /\ (analysis_type = "quick" \/ analysis_type = "full")}}
            \cup {<<x.change_id, 7>> : x \in {y \in all_impacts :
                    Complete(y, 7) /\ analysis_type = "full"}},
         validation_ready |->
            UNION {{<<x.change_id, w>> : x \in {y \in all_impacts :
                        Complete(y, w) /\ analysis_type = "full"}} : w \in {14, 30}},
         pending |->
            {[change_id |-> x.change_id,
              pending_windows |-> PendingWindows(x),
              next_available |-> MinAvailable(x, PendingWindows(x))] :
                x \in {y \in all_impacts : PendingWindows(y) # {}}}]

(***************************************************************************)
(* data_loader.py: the TTL cache and the budget recommendations            *)
(***************************************************************************)
CACHE_TTL_HEAVY == 900
ActionedLimit == 100
ActionedDays == 3

\* the body of get_recently_actioned_items; campaign names are shorter than 50
\* characters, so campaign[:50] is the campaign
RecentlyActioned(entries, t, days) ==
    LET recent == get_recent_entries(entries, t, days, ActionedLimit)
    IN  {"Meta" : e \in {x \in Range(recent) : Truthy(x.channel) /\ NamesMeta(x.channel)}}
        \cup {"Google" : e \in {x \in Range(recent) :
                                    Truthy(x.channel) /\ NamesGoogle(x.channel)}}
        \cup {e.campaign : e \in {x \in Range(recent) : Truthy(x.campaign)}}

\* cached(ttl): the stored value if it is younger than ttl seconds
CacheHit(c, t, ttl) == c.some /\ (t - c.t) * SecondsPerTick < ttl

\* what the repository says when the recommendations are computed
DataInputs ==
    {[error |-> TRUE, pct_change |-> 0, meta_spend |-> 0, google_spend |-> 0],
     [error |-> FALSE, pct_change |-> 10, meta_spend |-> 700, google_spend |-> 0],
     [error |-> FALSE, pct_change |-> 0, meta_spend |-> 700, google_spend |-> 0]}

\* the ids of the channel-level recommendations get_budget_recommendations returns
BudgetIds(actioned_items, data) ==
    IF data.error THEN {}
    ELSE {"meta_budget" : x \in {1} \cap
                {k \in {1} : /\ "Meta" \notin actioned_items
                             /\ (data.pct_change > 0
                                 \/ (data.pct_change = 0 /\ data.meta_spend > 0))}}
         \cup {"google_budget" : x \in {1} \cap
                {k \in {1} : /\ "Google" \notin actioned_items
                             /\ (data.pct_change > 0
                                 \/ (data.pct_change = 0 /\ data.google_spend > 0))}}

(***************************************************************************)
(* SpecChangelog: the changelog's writers, the clock and the budget        *)
(* recommendations that read the changelog through the cache               *)
(***************************************************************************)
\* POST /changelog/entries
add_entry(channel, campaign, age) ==
    /\ Step
    /\ Len(changelog) < MaxEntries
    /\ changelog' = add_entry_list(changelog, now - age, channel, campaign)
    /\ budget' = NoCall
    /\ UNCHANGED <<fnVars, ledgerVars, now, concVars, cache>>

\* DELETE /changelog/entries/{entry_id}
delete_entry(entry_id) ==
    /\ Step
    /\ changelog' = delete_entry_list(changelog, entry_id)
    /\ budget' = NoCall
    /\ UNCHANGED <<fnVars, ledgerVars, now, concVars, cache>>

\* PUT /changelog/entries/{entry_id}
update_entry(entry_id, edit) ==
    /\ Step
    /\ LET i == FindEntry(changelog, entry_id)
           timestamp == IF i = 0 \/ edit[3] = 0 THEN NoTime
                        ELSE At(changelog[i].timestamp - Days(edit[3]))
       IN  changelog' = update_entry_list(changelog, entry_id, edit[1], edit[2], timestamp)
    /\ budget' = NoCall
    /\ UNCHANGED <<fnVars, ledgerVars, now, concVars, cache>>

\* GET /metrics/budget-recommendations
get_budget_recommendations(data) ==
    /\ Step
    /\ LET hit == CacheHit(cache, now, CACHE_TTL_HEAVY)
           actioned_items == IF hit THEN cache.v
                             ELSE RecentlyActioned(changelog, now, ActionedDays)
       IN  /\ cache' = IF hit THEN cache
                       ELSE [some |-> TRUE, v |-> actioned_items, t |-> now]
           /\ budget' = [called |-> TRUE, ids |-> BudgetIds(actioned_items, data), t |-> now]
    /\ UNCHANGED <<fnVars, ledgerVars, now, concVars, changelog>>

InitChangelog ==
    /\ ledger = <<>>
    /\ micro = 0
    /\ now = Midnight(StartDay)
    /\ resp = "none"
    /\ ops = 0
    /\ pc = <<>>
    /\ loc = <<>>
    /\ req = <<>>
    /\ acked = {}
    /\ changelog = <<>>
    /\ cache = NoCache
    /\ budget = NoCall
    /\ args = NoArgs
    /\ result = NotReturned
    /\ source = 0
    /\ correlation_data = NoRecord

NextChangelog ==
    \/ \E a \in AddInputs : add_entry(a[1], a[2], a[3])
    \/ \E id \in EntryIdInputs : delete_entry(id)
    \/ \E id \in EntryIdInputs, edit \in EditInputs : update_entry(id, edit)
    \/ \E data \in DataInputs : get_budget_recommendations(data)
    \/ \E dt \in TickInputs : Tick(dt)

SpecChangelog == InitChangelog /\ [][NextChangelog]_vars

(***************************************************************************)
(* Claims on SpecChangelog                                                 *)
(***************************************************************************)
\* whole days from the change date of entry e to the date of time t
DaysFromChange(e, t) == DateOf(t) - DateOf(e.timestamp)
\* the entries whose timestamp lies within the last n days before t
Within(entries, t, n) == {e \in Range(entries) : t - e.timestamp <= Days(n)}
CoolingDaysInputs == {1, COOLING_OFF_DAYS, 7}
\* how far ahead the later evaluations of a window are looked at, in ticks
Horizon == {Days(k) + dt : k \in {0, 1, 7, 30}, dt \in {1, TicksPerDay - 1}}

\* C3: get_change_impact_status reports window w complete iff days_since_change >= w,
\* otherwise pending with days_remaining = w - days_since_change >= 1 and
\* available_on = change_date + w; a change made 10 days ago has 3d and 7d complete
\* and 14d and 30d pending with 4 and 20 days remaining.
C3_WindowStatus ==
    \A e \in Range(changelog) :
        LET d == DaysFromChange(e, now)
            win == get_change_impact_status(e, now).windows
        IN  /\ \A w \in {3, 7, 14, 30} :
                /\ win[w].status \in {"complete", "pending"}
                /\ win[w].status = "complete" <=> d >= w
                /\ win[w].status = "pending" =>
                      /\ win[w].days_remaining = w - d
                      /\ win[w].days_remaining >= 1
                      /\ win[w].available_on = DateOf(e.timestamp) + w
            /\ d = 10 =>
                /\ win[3].status = "complete" /\ win[7].status = "complete"
                /\ win[14].status = "pending" /\ win[14].days_remaining = 4
                /\ win[30].status = "pending" /\ win[30].days_remaining = 20

\* C3 witness: a change made 10 days ago, evaluated later in the day than the change
\* date's midnight (more than 10 times 24 hours have passed, the whole days are 10).
C3_Witness ==
    \E e \in Range(changelog) :
        /\ DaysFromChange(e, now) = 10
        /\ now - e.timestamp > Days(10)
        /\ get_change_impact_status(e, now).windows[7].status = "complete"
        /\ get_change_impact_status(e, now).windows[14].status = "pending"

\* C4: get_items_in_cooling_off(days=N) lists exactly the campaigns named by the
\* entries of the last N days (one changed 2 days ago is listed for N = 3, one changed
\* only 4 or more days ago is not), and every channel named by such an entry appears
\* in the channel list (under its own name, or as Meta / Google).
C4_CoolingOffListsEveryChannel ==
    \A n \in CoolingDaysInputs :
        LET r == get_items_in_cooling_off(changelog, now, n)
            within == Within(changelog, now, n)
        IN  /\ r.campaigns = {e.campaign : e \in {x \in within : Truthy(x.campaign)}}
            /\ \A e \in Range(changelog) :
                    /\ (Truthy(e.campaign) /\ now - e.timestamp = Days(2) /\ n = 3)
                            => e.campaign \in r.campaigns
                    /\ (\A x \in Range(changelog) :
                            x.campaign = e.campaign => now - x.timestamp >= Days(4)) /\ n = 3
                            => e.campaign \notin r.campaigns
            /\ \A e \in within :
                    Truthy(e.channel) =>
                        \/ e.channel \in r.channels
                        \/ NamesMeta(e.channel) /\ "Meta" \in r.channels
                        \/ NamesGoogle(e.channel) /\ "Google" \in r.channels

\* C5: a get_budget_recommendations call made after a changelog entry naming Meta
\* (Google) was logged, and within 3 days of that entry, returns no meta_budget
\* (google_budget) recommendation.
C5_NoBudgetRecWhileCoolingOff ==
    budget.called =>
        \A e \in Range(changelog) :
            (e.timestamp <= budget.t /\ budget.t - e.timestamp <= Days(3)) =>
                /\ NamesMeta(e.channel) => "meta_budget" \notin budget.ids
                /\ NamesGoogle(e.channel) => "google_budget" \notin budget.ids

\* C6 as claimed: the changelog is append-only: no step removes an entry or alters
\* the id, timestamp, channel or campaign of a stored entry.
C6_AppendOnly ==
    [][/\ Len(changelog') >= Len(changelog)
       /\ \A i \in 1..Len(changelog) : changelog'[i] = changelog[i]]_vars

\* C6 as amended: a step that adds an entry appends exactly one and leaves the stored
\* entries as they are; a step that keeps the number of entries keeps every entry's
\* id and position (update_entry may alter timestamp, channel and campaign); a step
\* that removes entries removes those of one id and leaves the others as they are.
C6_AppendAmended ==
    [][/\ Len(changelog') > Len(changelog) =>
             /\ Len(changelog') = Len(changelog) + 1
             /\ SubSeq(changelog', 1, Len(changelog)) = changelog
       /\ Len(changelog') = Len(changelog) =>
             \A i \in 1..Len(changelog) : changelog'[i].id = changelog[i].id
       /\ Len(changelog') < Len(changelog) =>
             \E id \in EntryIdInputs :
                 changelog' = SelectSeq(changelog, LAMBDA e : e.id # id)]_vars

\* C6 witness: two entries are stored, the first of them edited after it was added
\* (the request that logged it named Meta Ads and Spring Sale).
C6_Witness ==
    /\ Len(changelog) = 2
    /\ changelog[1].channel = "Google Ads"
    /\ changelog[1].campaign = "Spring Sale"

\* the report of window w of entry e when evaluated at time t
WindowAt(e, t, w) == get_change_impact_status(e, t).windows[w]
\* a window reported complete has the 7-day baseline [change_date - 7, change_date - 1]
\* and the w-day after period [change_date, change_date + w - 1], which do not overlap
PeriodsOf(e, t, w) ==
    LET cd == DateOf(e.timestamp)
        r == WindowAt(e, t, w)
    IN  r.status = "complete" =>
            /\ r.baseline_period = <<cd - 7, cd - 1>>
            /\ r.after_period = <<cd, cd + w - 1>>
            /\ r.baseline_period[2] < r.after_period[1]
\* window w of entry e1, complete when evaluated at t1, is complete with the same
\* periods when entry e2 is evaluated at t2
SamePeriods(e1, t1, e2, t2, w) ==
    LET r == WindowAt(e1, t1, w)
        later == WindowAt(e2, t2, w)
    IN  r.status = "complete" =>
            /\ later.status = "complete"
            /\ later.baseline_period = r.baseline_period
            /\ later.after_period = r.after_period

\* C7 as claimed: for every logged change and window w reported complete, the baseline
\* period is the 7 days [change_date - 7, change_date - 1] whatever w is, the after
\* period is the w days [change_date, change_date + w - 1], the two do not overlap,
\* and once the window was reported complete every later evaluation of that change
\* (the entry of the same id) reports it complete with the same periods.
C7_PeriodsFixed ==
    /\ [](\A e \in Range(changelog), w \in TRACKING_WINDOWS : PeriodsOf(e, now, w))
    /\ [][\A i \in 1..Len(changelog), j \in 1..Len(changelog'), w \in TRACKING_WINDOWS :
            changelog'[j].id = changelog[i].id =>
                SamePeriods(changelog[i], now, changelog'[j], now', w)]_vars

\* C7 as amended: the periods of a complete window are as claimed, and every later
\* evaluation reports the window complete with the same periods as long as the
\* entry's timestamp has not been edited in between (update_entry may move the
\* change date, and the periods move with it).
C7_PeriodsAmended ==
    /\ [](\A e \in Range(changelog), w \in TRACKING_WINDOWS :
            /\ PeriodsOf(e, now, w)
            /\ \A dt \in Horizon : SamePeriods(e, now, e, now + dt, w))
    /\ [][\A i \in 1..Len(changelog), j \in 1..Len(changelog'), w \in TRACKING_WINDOWS :
            (/\ changelog'[j].id = changelog[i].id
             /\ changelog'[j].timestamp = changelog[i].timestamp) =>
                SamePeriods(changelog[i], now, changelog'[j], now', w)]_vars

\* C7 witness: time has passed since the first request; one change has all four
\* windows complete, another has its 3d window complete and its 7d window pending.
C7_Witness ==
    /\ now > Midnight(StartDay)
    /\ \E e1, e2 \in Range(changelog) :
        /\ WindowAt(e1, now, 30).status = "complete"
        /\ WindowAt(e2, now, 3).status = "complete"
        /\ WindowAt(e2, now, 7).status = "pending"

\* C29: for a fixed entry, completion of its windows is monotone in evaluation time:
\* a window reported pending with available_on = d is complete at every later
\* evaluation time on or after date d and at none before, a window reported complete
\* is complete at every later time, and whenever window w is complete every shorter
\* window is complete too.
C29_CompletionMonotone ==
    \A e \in Range(changelog) :
        LET win == get_change_impact_status(e, now).windows
            pending == {w \in TRACKING_WINDOWS : win[w].status = "pending"}
        IN  /\ \A h \in Horizon :
                LET later == get_change_impact_status(e, now + h).windows
                IN  \A w \in TRACKING_WINDOWS :
                        later[w].status = "complete" <=>
                            (w \in pending => DateOf(now + h) >= win[w].available_on)
            /\ \A w \in TRACKING_WINDOWS \ pending, v \in pending : w < v

\* C29 witness: an entry whose 3d window is pending and becomes available tomorrow,
\* next to an entry whose 7d window is complete and whose 14d window is pending.
C29_Witness ==
    /\ \E e \in Range(changelog) :
            LET win == get_change_impact_status(e, now).windows
            IN  win[3].status = "pending" /\ win[3].available_on = DateOf(now) + 1
    /\ \E e \in Range(changelog) :
            LET win == get_change_impact_status(e, now).windows
            IN  win[7].status = "complete" /\ win[14].status = "pending"

\* C12: get_changes_needing_followup(mode) places every complete 3d window in
\* action_ready in every mode, every complete 7d window in action_ready exactly in
\* mode full, every complete 14d or 30d window in validation_ready exactly in mode
\* full, lists a change under pending iff one of its windows is not complete, and in
\* mode full every (change, window) pair is in exactly one of the three groups.
C12_FollowupPartition ==
    \A mode \in ModeInputs :
        LET r == get_changes_needing_followup(changelog, now, mode)
            InPending(id, w) == \E p \in r.pending : p.change_id = id /\ w \in p.pending_windows
            B(b) == IF b THEN 1 ELSE 0
        IN  \A e \in Range(changelog) :
                /\ \A w \in TRACKING_WINDOWS :
                      LET complete == WindowAt(e, now, w).status = "complete"
                          item == <<e.id, w>>
                      IN  /\ (complete /\ w = 3) => item \in r.action_ready
                          /\ (complete /\ w = 7) =>
                                (item \in r.action_ready <=> mode = "full")
                          /\ (complete /\ w \in {14, 30}) =>
                                (item \in r.validation_ready <=> mode = "full")
                          /\ mode = "full" =>
                                B(item \in r.action_ready) + B(item \in r.validation_ready)
                                    + B(InPending(e.id, w)) = 1
                /\ (\E p \in r.pending : p.change_id = e.id)
                      <=> \E w \in TRACKING_WINDOWS : WindowAt(e, now, w).status = "pending"

\* C27: in full mode every change whose 14d or 30d window has completed is listed in
\* validation_ready for that window; and for every change and every time of day there
\* is an evaluation at that time of day, on some day from the 30th after the change
\* on, at which its completed 30d window is listed.
C27_ValidationListed ==
    /\ \A e \in Range(changelog), w \in {14, 30} :
            WindowAt(e, now, w).status = "complete" =>
                <<e.id, w>> \in get_changes_needing_followup(changelog, now, "full").validation_ready
    /\ \A e \in Range(changelog), tod \in {0, TicksPerDay - 1} :
            \E k \in 0..2 :
                LET t == Midnight(DateOf(e.timestamp) + 30 + k) + tod
                IN  <<e.id, 30>> \in
                        get_changes_needing_followup(changelog, t, "full").validation_ready

(***************************************************************************)
(* SpecDashboard: the changelog file written by the backend service and by *)
(* the dashboard module (dashboard/changelog.py), which share the file.    *)
(***************************************************************************)
\* dashboard/changelog.py add_entry: "id": len(entries) + 1
dashboard_add_entry_list(entries, timestamp, channel, campaign) ==
    Append(entries, [id |-> Len(entries) + 1, timestamp |-> timestamp,
                     channel |-> channel, campaign |-> campaign])

\* the dashboard's "log a change" form; the timestamp is always the current time
dashboard_add_entry(channel, campaign) ==
    /\ Step
    /\ Len(changelog) < MaxEntries
    /\ changelog' = dashboard_add_entry_list(changelog, now, channel, campaign)
    /\ budget' = NoCall
    /\ UNCHANGED <<fnVars, ledgerVars, now, concVars, cache>>

NextDashboard ==
    \/ NextChangelog
    \/ \E a \in AddInputs : dashboard_add_entry(a[1], a[2])

SpecDashboard == InitChangelog /\ [][NextDashboard]_vars

\* C28: after any sequence of add_entry, update_entry and delete_entry calls, by the
\* backend service or the dashboard module, no two stored entries share an id, and a
\* new entry's id differs from the id of every entry stored before.
C28_UniqueIds ==
    /\ [](\A i, j \in 1..Len(changelog) : changelog[i].id = changelog[j].id => i = j)
    /\ [][Len(changelog') = Len(changelog) + 1 =>
            \A i \in 1..Len(changelog) : changelog'[Len(changelog')].id # changelog[i].id]_vars

(***************************************************************************)
(* SpecOutcome: _calculate_outcome applied to metrics drawn from the       *)
(* values around the 5% thresholds (hundredths; mer and ncac are ratios of *)
(* non-negative amounts, cam_per_order is a margin and can be negative)    *)
(***************************************************************************)
RatioBefore == {0, 1000}
RatioAfter == {0, 949, 950, 1000, 1050, 1051}
MarginBefore == {-1000, 0, 1000}
MarginAfter == {-1051, -1050, -1000, -950, -949, 0, 949, 950, 1000, 1050, 1051}

OutcomeArgs ==
    {[before |-> Dict(m, n, c), after |-> a] :
        m \in RatioBefore, n \in RatioBefore, c \in MarginBefore,
        a \in {Dict(x, y, z) : x \in RatioAfter, y \in RatioAfter, z \in MarginAfter}
               \cup {{}}}

\* the call _calculate_outcome(before, after, recommendation_type)
call_calculate_outcome ==
    /\ args \in OutcomeArgs
    /\ result = NotReturned
    /\ source = 0
    /\ result' = Returned(calculate_outcome(args.before, args.after))
    /\ UNCHANGED <<ledgerVars, now, ops, concVars, changelogVars, args, source, correlation_data>>

InitOutcome ==
    /\ ledger = <<>>
    /\ micro = 0
    /\ now = 0
    /\ resp = "none"
    /\ ops = 0
    /\ pc = <<>>
    /\ loc = <<>>
    /\ req = <<>>
    /\ acked = {}
    /\ changelog = <<>>
    /\ cache = NoCache
    /\ budget = NoCall
    /\ args \in OutcomeArgs
    /\ result = NotReturned
    /\ source = 0
    /\ correlation_data = NoRecord

NextOutcome == call_calculate_outcome

SpecOutcome == InitOutcome /\ [][NextOutcome]_vars

\* the after value lies more than 5% of the before value above (below) it
Above5(before, after) == after * 100 > before * 105
Below5(before, after) == after * 100 < before * 95
\* the signals of a call: <<before, after, higher is better>>
SignalsOf(a) ==
    {<<Get(a.before, "mer", 0), Get(a.after, "mer", 0), TRUE>>,
     <<Get(a.before, "ncac", 0), Get(a.after, "ncac", 0), FALSE>>,
     <<Get(a.before, "cam_per_order", 0), Get(a.after, "cam_per_order", 0), TRUE>>}
SignalImproved(s) == IF s[3] THEN Above5(s[1], s[2]) ELSE Below5(s[1], s[2])
SignalDeclined(s) == IF s[3] THEN Below5(s[1], s[2]) ELSE Above5(s[1], s[2])
\* the outcome the claim gives for P improved and N declined signals
OutcomeRule(P, N) ==
    IF (P >= 2 /\ N = 0) \/ P > N THEN "positive"
    ELSE IF (N >= 2 /\ P = 0) \/ N > P THEN "negative"
    ELSE "neutral"
\* the number of signals that Counted holds of (mer and cam_per_order count as two
\* signals also when their values agree)
CountSignals(a, Counted(_)) ==
    LET B(b) == IF b THEN 1 ELSE 0
    IN  B(Counted(<<Get(a.before, "mer", 0), Get(a.after, "mer", 0), TRUE>>))
        + B(Counted(<<Get(a.before, "ncac", 0), Get(a.after, "ncac", 0), FALSE>>))
        + B(Counted(<<Get(a.before, "cam_per_order", 0),
                      Get(a.after, "cam_per_order", 0), TRUE>>))

FunnelMetrics(revenue, new_customers, amazon_sales, branded_clicks, mer) ==
    {<<"revenue", revenue>>, <<"new_customers", new_customers>>,
     <<"amazon_sales", amazon_sales>>, <<"branded_clicks", branded_clicks>>,
     <<"mer", mer>>}

\* variant of calc_change without the flat band: any rise is up, any fall is down
calc_change_no_band(after_val, baseline_val) ==
    [direction |->
        IF baseline_val > 0
        THEN IF after_val - baseline_val > 0 THEN "up"
             ELSE IF after_val - baseline_val < 0 THEN "down"
             ELSE "flat"
        ELSE IF after_val > 0 THEN "up" ELSE "flat"]

\* calc_change: pct = (after - baseline) / baseline * 100 if baseline > 0, else 100
\* if after > 0, else 0; direction from pct > 2 and pct < -2 (the fields baseline,
\* after, absolute and the rounded pct are display values and left out)
calc_change(after_val, baseline_val) ==
    [direction |->
        IF baseline_val > 0
        THEN IF (after_val - baseline_val) * 100 > 2 * baseline_val THEN "up"
             ELSE IF (after_val - baseline_val) * 100 < -2 * baseline_val THEN "down"
             ELSE "flat"
        ELSE IF after_val > 0 THEN "up" ELSE "flat"]

ImpactKeys == {"revenue", "orders", "new_customers", "amazon_sales", "branded_clicks",
               "meta_first_click", "mer", "ncac"}
ImpactError == [error |-> "Missing data for comparison"]

\* variant of calculate_impact that only checks the baseline for missing data
calculate_impact_baseline_only(baseline, after) ==
    IF baseline = {} THEN ImpactError
    ELSE [k \in ImpactKeys |-> calc_change(Get(after, k, 0), Get(baseline, k, 0))]

calculate_impact(baseline, after) ==
    IF baseline = {} \/ after = {} THEN ImpactError
    ELSE [k \in ImpactKeys |-> calc_change(Get(after, k, 0), Get(baseline, k, 0))]

\* variant of assess_funnel_impact that takes the weights of new customers, amazon
\* sales and branded search from the suggestions stored by the last analysis
assess_funnel_impact_suggested(impact) ==
    IF impact = ImpactError THEN [verdict |-> "unknown", reason |-> impact.error]
    ELSE LET Suggested(signal, weight) ==
                 IF correlation_data = NoRecord THEN weight
                 ELSE correlation_data[1].weight_suggestions[signal].suggested
             Score(k, weight) ==
                 IF impact[k].direction = "up" THEN weight
                 ELSE IF impact[k].direction = "down" THEN -weight
                 ELSE 0
             total_score == Score("revenue", 25)
                            + Score("new_customers", Suggested("new_customers", 25))
                            + Score("amazon_sales", Suggested("amazon", 20))
                            + Score("branded_clicks", Suggested("branded_search", 15))
                            + Score("mer", 10)
         IN  [verdict |-> IF total_score >= 40 THEN "strong_positive"
                          ELSE IF total_score >= 20 THEN "positive"
                          ELSE IF total_score >= 0 THEN "neutral"
                          ELSE IF total_score >= -20 THEN "slightly_negative"
                          ELSE "negative",
              score |-> total_score]

\* variant of assess_funnel_impact that weighs branded search 1 instead of 1.5
assess_funnel_impact_branded_1(impact) ==
    IF impact = ImpactError THEN [verdict |-> "unknown", reason |-> impact.error]
    ELSE LET Score(k, weight) ==
                 IF impact[k].direction = "up" THEN weight
                 ELSE IF impact[k].direction = "down" THEN -weight
                 ELSE 0
             total_score == Score("revenue", 25) + Score("new_customers", 25)
                            + Score("amazon_sales", 20) + Score("branded_clicks", 10)
                            + Score("mer", 10)
         IN  [verdict |-> IF total_score >= 40 THEN "strong_positive"
                          ELSE IF total_score >= 20 THEN "positive"
                          ELSE IF total_score >= 0 THEN "neutral"
                          ELSE IF total_score >= -20 THEN "slightly_negative"
                          ELSE "negative",
              score |-> total_score]

assess_funnel_impact(impact) ==
    IF impact = ImpactError THEN [verdict |-> "unknown", reason |-> impact.error]
    ELSE LET Score(k, weight) ==
                 IF impact[k].direction = "up" THEN weight
                 ELSE IF impact[k].direction = "down" THEN -weight
                 ELSE 0
             total_score == Score("revenue", 25) + Score("new_customers", 25)
                            + Score("amazon_sales", 20) + Score("branded_clicks", 15)
                            + Score("mer", 10)
         IN  [verdict |-> IF total_score >= 40 THEN "strong_positive"
                          ELSE IF total_score >= 20 THEN "positive"
                          ELSE IF total_score >= 0 THEN "neutral"
                          ELSE IF total_score >= -20 THEN "slightly_negative"
                          ELSE "negative",
              score |-> total_score]

(***************************************************************************)
(* SpecAssess: assess_funnel_impact(calculate_impact(baseline, after)) for *)
(* metrics around the 2% band and the deltas of the spec's example         *)
(***************************************************************************)
BaselineInputs ==
    {FunnelMetrics(1000, 1000, 1000, 1000, 1000), FunnelMetrics(1000, 1000, 0, 1000, 1000), {}}
AfterMetricInputs ==
    {FunnelMetrics(r, n, a, b, m) :
        r \in {979, 980, 1020, 1021, 1120}, n \in {979, 980, 1021, 1150},
        a \in {0, 979, 1000, 1021, 1080}, b \in {979, 1000, 1020, 1021},
        m \in {979, 1010, 1020, 1021}} \cup {{}}
AssessArgs == {[baseline |-> x, after |-> y] : x \in BaselineInputs, y \in AfterMetricInputs}

\* the calls of get_change_impact_status lines 299-300
call_assess_funnel_impact ==
    /\ args \in AssessArgs
    /\ result = NotReturned
    /\ source = 0
    /\ result' = Returned(assess_funnel_impact(calculate_impact(args.baseline, args.after)))
    /\ UNCHANGED <<ledgerVars, now, ops, concVars, changelogVars, args, source, correlation_data>>

InitAssess ==
    /\ ledger = <<>>
    /\ micro = 0
    /\ now = 0
    /\ resp = "none"
    /\ ops = 0
    /\ pc = <<>>
    /\ loc = <<>>
    /\ req = <<>>
    /\ acked = {}
    /\ changelog = <<>>
    /\ cache = NoCache
    /\ budget = NoCall
    /\ args \in AssessArgs
    /\ result = NotReturned
    /\ source = 0
    /\ correlation_data = NoRecord

NextAssess == call_assess_funnel_impact

SpecAssess == InitAssess /\ [][NextAssess]_vars

\* the value of metric k rose by exactly p percent from a positive baseline
RoseBy(a, k, p) ==
    /\ Get(a.baseline, k, 0) > 0
    /\ (Get(a.after, k, 0) - Get(a.baseline, k, 0)) * 100 = p * Get(a.baseline, k, 0)
\* the deltas of the example: revenue +12%, new customers +15%, amazon +8%, branded
\* search flat (unchanged), mer +1%
IsExample(a) ==
    /\ a.baseline # {} /\ a.after # {}
    /\ RoseBy(a, "revenue", 12) /\ RoseBy(a, "new_customers", 15)
    /\ RoseBy(a, "amazon_sales", 8) /\ RoseBy(a, "branded_clicks", 0)
    /\ RoseBy(a, "mer", 1)

\* C15 as claimed: assess_funnel_impact applied to deltas with revenue up 12%, new
\* customers up 15%, amazon sales up 8%, branded search flat and mer at +1% returns
\* score 8.0 and verdict strong_positive.
C15_ExampleScore8 ==
    (result # NotReturned /\ IsExample(args)) =>
        (result[1].score = 80 /\ result[1].verdict = "strong_positive")

\* C15 as amended: for those deltas the score is 7.0 (2.5 + 2.5 + 2.0; mer at +1% is
\* flat and adds nothing) and the verdict strong_positive.
C15_ExampleScore7 ==
    (result # NotReturned /\ IsExample(args)) =>
        (result[1].score = 70 /\ result[1].verdict = "strong_positive")

\* C15 witness: the call on the example's deltas has returned.
C15_Witness ==
    /\ result # NotReturned
    /\ args \in AssessArgs
    /\ IsExample(args)
    /\ result[1].verdict = "strong_positive"

\* the weights of the claim, in tenths
ClaimedWeight(k) ==
    CASE k = "revenue" -> 25 [] k = "new_customers" -> 25 [] k = "amazon_sales" -> 20
      [] k = "branded_clicks" -> 15 [] k = "mer" -> 10
ClaimedVerdict(score) ==
    IF score >= 40 THEN "strong_positive" ELSE IF score >= 20 THEN "positive"
    ELSE IF score >= 0 THEN "neutral" ELSE IF score >= -20 THEN "slightly_negative"
    ELSE "negative"
WeightedKeys == {"revenue", "new_customers", "amazon_sales", "branded_clicks", "mer"}
RECURSIVE SumOver(_, _)
SumOver(K, f) ==
    IF K = {} THEN 0 ELSE LET k == CHOOSE x \in K : TRUE IN f[k] + SumOver(K \ {k}, f)

\* C16: for every combination of directions of the five metrics the score is the sum
\* of +weight for a metric that is up, -weight for one that is down and 0 for one
\* that is flat (a change of at most 2% either way), with weights revenue 2.5, new
\* customers 2.5, amazon sales 2.0, branded search 1.5, mer 1.0; the verdict is
\* strong_positive from 4, positive from 2, neutral from 0, slightly_negative from
\* -2, negative below.
C16_WeightedScore ==
    (result # NotReturned /\ args.baseline # {} /\ args.after # {}) =>
        LET impact == calculate_impact(args.baseline, args.after)
            contribution == [k \in WeightedKeys |->
                                IF impact[k].direction = "up" THEN ClaimedWeight(k)
                                ELSE IF impact[k].direction = "down" THEN -ClaimedWeight(k)
                                ELSE 0]
            Abs(x) == IF x < 0 THEN -x ELSE x
        IN  /\ \A k \in WeightedKeys : impact[k].direction \in {"up", "down", "flat"}
            /\ \A k \in WeightedKeys :
                    Get(args.baseline, k, 0) > 0 =>
                        (impact[k].direction = "flat"
                            <=> Abs(Get(args.after, k, 0) - Get(args.baseline, k, 0)) * 100
                                    <= 2 * Get(args.baseline, k, 0))
            /\ result[1].score = SumOver(WeightedKeys, contribution)
            /\ result[1].verdict = ClaimedVerdict(result[1].score)

\* C16 witness: revenue and mer are down, branded search is up and the two other
\* metrics are flat: the score is -2.5 + 1.5 - 1.0 = -2.0, still slightly_negative.
C16_Witness ==
    /\ result # NotReturned
    /\ args \in AssessArgs
    /\ args.baseline # {} /\ args.after # {}
    /\ calculate_impact(args.baseline, args.after)["revenue"].direction = "down"
    /\ calculate_impact(args.baseline, args.after)["branded_clicks"].direction = "up"
    /\ calculate_impact(args.baseline, args.after)["mer"].direction = "down"
    /\ result[1].score = -20
    /\ result[1].verdict = "slightly_negative"

Verdicts == {"strong_positive", "positive", "neutral", "slightly_negative", "negative"}

\* C17 as claimed: the assessment of every window reported complete, which is
\* assess_funnel_impact(calculate_impact(baseline_metrics, after_metrics)), has a
\* verdict among strong_positive, positive, neutral, slightly_negative, negative,
\* whatever the metrics repository returns for the two periods.
C17_VerdictInEnum ==
    result # NotReturned => result[1].verdict \in Verdicts

\* C17 as amended: the verdict is one of the five when the repository has data for
\* both the baseline and the after period, and it is unknown (with the reason
\* "Missing data for comparison" and no score) when it has none for either.
C17_VerdictOrUnknown ==
    result # NotReturned =>
        IF args.baseline = {} \/ args.after = {}
        THEN result[1] = [verdict |-> "unknown", reason |-> "Missing data for comparison"]
        ELSE result[1].verdict \in Verdicts /\ DOMAIN result[1] = {"verdict", "score"}

\* C17 witness: the repository has data for the baseline period and none for the
\* after period of a complete window, and the assessment came back unknown.
C17_Witness ==
    /\ result # NotReturned
    /\ args \in AssessArgs
    /\ args.baseline # {} /\ args.after = {}
    /\ result[1].verdict = "unknown"

(***************************************************************************)
(* SpecCache: data_loader.cached and clear_cache.  _cache maps a key to    *)
(* <<value, time stored>>; here cache is that map.                         *)
(***************************************************************************)
CachedFunctions == {"get_spend_outcome_correlation"}
\* how a caller writes the argument: f(7) or f(days=7)
CallForms == {"positional", "keyword"}
DaysInputs == {7, 14}
TtlOf(fn) == CACHE_TTL_HEAVY

\* ":".join([func.__name__] + [str(a) for a in args] + [f"{k}={v}" for k, v in sorted(kwargs.items())])
CacheKey(fn, form, days) ==
    IF form = "positional" THEN <<fn, <<days>>, <<>>>> ELSE <<fn, <<>>, <<<<"days", days>>>>>>

\* what the wrapped function computes from the data it reads
Compute(fn, days) == [fn |-> fn, days |-> days, source |-> source]

\* wrapper(*args, **kwargs) of a function decorated with @cached(ttl)
cached_call(fn, form, days) ==
    /\ Step
    /\ LET cache_key == CacheKey(fn, form, days)
           hit == /\ cache_key \in DOMAIN cache
                  /\ (now - cache[cache_key][2]) * SecondsPerTick < TtlOf(fn)
       IN  IF hit
           THEN /\ result' = Returned([value |-> cache[cache_key][1], computed |-> FALSE])
                /\ cache' = cache
           ELSE /\ result' = Returned([value |-> Compute(fn, days), computed |-> TRUE])
                /\ cache' = [k \in DOMAIN cache \cup {cache_key} |->
                                IF k = cache_key THEN <<Compute(fn, days), now>>
                                ELSE cache[k]]
    /\ args' = [fn |-> fn, form |-> form, days |-> days]
    /\ UNCHANGED <<ledgerVars, now, concVars, changelog, budget, source, correlation_data>>

\* clear_cache()
clear_cache ==
    /\ Step
    /\ cache' = <<>>
    /\ UNCHANGED <<ledgerVars, now, concVars, changelog, budget, fnVars>>

\* the daily data pull replaces the files the cached functions read
data_pull ==
    /\ Step
    /\ source' = source + 1
    /\ UNCHANGED <<ledgerVars, now, concVars, changelogVars, args, result, correlation_data>>

InitCache ==
    /\ ledger = <<>>
    /\ micro = 0
    /\ now = 0
    /\ resp = "none"
    /\ ops = 0
    /\ pc = <<>>
    /\ loc = <<>>
    /\ req = <<>>
    /\ acked = {}
    /\ changelog = <<>>
    /\ cache = <<>>
    /\ budget = NoCall
    /\ args = NoArgs
    /\ result = NotReturned
    /\ source = 0
    /\ correlation_data = NoRecord

NextCache ==
    \/ \E fn \in CachedFunctions, form \in CallForms, days \in DaysInputs :
            cached_call(fn, form, days)
    \/ clear_cache
    \/ data_pull
    \/ \E dt \in TickInputs : Tick(dt)

SpecCache == InitCache /\ [][NextCache]_vars

\* a value of fn for the argument days, however the call was written, was stored
\* less than ttl seconds ago and not cleared since
StoredFresh(fn, days) ==
    \E form \in CallForms :
        /\ CacheKey(fn, form, days) \in DOMAIN cache
        /\ (now - cache[CacheKey(fn, form, days)][2]) * SecondsPerTick < TtlOf(fn)

\* C18: a call of a @cached(ttl) function returns the stored value without computing
\* iff a value for the same function and arguments was computed less than ttl seconds
\* ago (and not cleared since); otherwise it computes, returns the fresh value and
\* stores it in place of the old one; it never fails.
C18_CachedIffFresh ==
    [][\A fn \in CachedFunctions, form \in CallForms, days \in DaysInputs :
          cached_call(fn, form, days) =>
              /\ result'[1].computed <=> ~StoredFresh(fn, days)
              /\ result'[1].computed =>
                    /\ result'[1].value = Compute(fn, days)
                    /\ cache'[CacheKey(fn, form, days)] = <<Compute(fn, days), now>>]_vars

(***************************************************************************)
(* SpecSummary: recommendations.get_recommendation_summary_for_llm, the    *)
(* part that counts outcomes by type and derives the patterns.  args is    *)
(* the list get_recent_recommendations returned.                           *)
(***************************************************************************)
MaxRecs == 4
TypeInputs == {"budget_increase", "budget_decrease"}

\* <<recommendation_type, status, outcome>> of the recommendations in the list
RecInputs ==
    { [recommendation_type |-> r[1], status |-> r[2], outcome |-> r[3]] : r \in
        { <<"budget_increase", "done", "positive">>,
          <<"budget_increase", "partial", "negative">>,
          <<"budget_increase", "done", "neutral">>,
          <<"budget_increase", "ignored", "positive">>,
          <<"budget_increase", "pending", "positive">>,
          <<"budget_increase", "pending", "pending">>,
          <<"budget_decrease", "done", "negative">> } }

SummaryArgs == UNION { [1..n -> RecInputs] : n \in 0..MaxRecs }

\* the counters of outcomes_by_type[rec_type] after the loop over the list
outcomes_by_type(recommendations, rec_type) ==
    LET OfType == { i \in 1..Len(recommendations) :
                        recommendations[i].recommendation_type = rec_type }
        WithStatus(S) == Cardinality({ i \in OfType : recommendations[i].status \in S })
        WithOutcome(o) == Cardinality({ i \in OfType : recommendations[i].outcome = o })
    IN  [done |-> WithStatus({"done", "partial"}),
         ignored |-> WithStatus({"ignored"}),
         positive |-> WithOutcome("positive"),
         negative |-> WithOutcome("negative"),
         neutral |-> WithOutcome("neutral")]

\* the patterns list, as the set of <<rec_type, kind>>; success_rate = positive / done
\* is compared with 0.7 and 0.3 in tenths
patterns(recommendations) ==
    LET types == { recommendations[i].recommendation_type : i \in 1..Len(recommendations) }
        kind(rec_type) ==
            LET counts == outcomes_by_type(recommendations, rec_type)
            IN  IF counts.done >= 3
                THEN IF 10 * counts.positive >= 7 * counts.done THEN "success"
                     ELSE IF 10 * counts.positive <= 3 * counts.done /\ counts.negative >= 2
                          THEN "failure"
                          ELSE "none"
                ELSE "none"
    IN  { <<rec_type, kind(rec_type)>> : rec_type \in { t \in types : kind(t) # "none" } }

call_summary_for_llm ==
    /\ args # NoArgs
    /\ result = NotReturned
    /\ result' = Returned(patterns(args.recommendations))
    /\ UNCHANGED <<ledgerVars, now, ops, concVars, changelogVars, args, source, correlation_data>>

InitSummary ==
    /\ ledger = <<>>
    /\ micro = 0
    /\ now = 0
    /\ resp = "none"
    /\ ops = 0
    /\ pc = <<>>
    /\ loc = <<>>
    /\ req = <<>>
    /\ acked = {}
    /\ changelog = <<>>
    /\ cache = NoCache
    /\ budget = NoCall
    /\ args \in { [recommendations |-> r] : r \in SummaryArgs }
    /\ result = NotReturned
    /\ source = 0
    /\ correlation_data = NoRecord

NextSummary == call_summary_for_llm

SpecSummary == InitSummary /\ [][NextSummary]_vars

\* the recommendations of a type that were acted upon, and those of them with a
\* positive outcome
ActedUpon(recommendations, rec_type) ==
    { i \in 1..Len(recommendations) :
        /\ recommendations[i].recommendation_type = rec_type
        /\ recommendations[i].status \in {"done", "partial"} }

ActedPositive(recommendations, rec_type) ==
    { i \in ActedUpon(recommendations, rec_type) : recommendations[i].outcome = "positive" }

NegativeOutcomes(recommendations, rec_type) ==
    { i \in 1..Len(recommendations) :
        /\ recommendations[i].recommendation_type = rec_type
        /\ recommendations[i].outcome = "negative" }

\* C20: a success pattern is flagged for a type exactly when the type has at least 3
\* acted-upon recommendations and at least 70% of them have a positive outcome; a
\* failure pattern exactly when it has at least 3 acted-upon recommendations, at least
\* 2 negative outcomes and at most 30% of the acted-upon ones have a positive outcome.
C20_PatternsBySuccessRate ==
    result # NotReturned =>
        \A rec_type \in TypeInputs :
            LET acted == Cardinality(ActedUpon(args.recommendations, rec_type))
                good == Cardinality(ActedPositive(args.recommendations, rec_type))
                bad == Cardinality(NegativeOutcomes(args.recommendations, rec_type))
            IN  /\ <<rec_type, "success">> \in result[1] <=>
                        (acted >= 3 /\ 10 * good >= 7 * acted)
                /\ <<rec_type, "failure">> \in result[1] <=>
                        (acted >= 3 /\ bad >= 2 /\ 10 * good <= 3 * acted)

(***************************************************************************)
(* SpecCorrelation: funnel_impact.calculate_signal_correlation.  A series  *)
(* is a sequence of integers; the Pearson coefficient r is kept as         *)
(* <<numerator, denominator squared>>, which decides its sign and the      *)
(* comparisons of |r| with 0.7, 0.4 and 0.2 without a square root.         *)
(***************************************************************************)
MaxSeriesLen == 8
LAG_PERIODS == {0, 3, 7, 14}

\* leading_signal[:k], lagging_signal[k:]
Prefix(S, k) == SubSeq(S, 1, IF k < Len(S) THEN k ELSE Len(S))
Suffix(S, k) == SubSeq(S, k + 1, Len(S))
Min(a, b) == IF a < b THEN a ELSE b

RECURSIVE Sum(_)
Sum(S) == IF S = <<>> THEN 0 ELSE Head(S) + Sum(Tail(S))

InsufficientData(message) ==
    [error |-> message, correlation |-> <<0, 1>>, strength |-> "insufficient_data"]

calculate_signal_correlation(leading_signal, lagging_signal, lag_days) ==
    IF Len(leading_signal) < 5 \/ Len(lagging_signal) < 5
    THEN InsufficientData("Not enough data points")
    ELSE
    LET shift == lag_days > 0 /\ lag_days < Len(lagging_signal)
        lagging1 == IF shift THEN Suffix(lagging_signal, lag_days) ELSE lagging_signal
        leading1 == IF shift THEN Prefix(leading_signal, Len(lagging1)) ELSE leading_signal
        min_len == Min(Len(leading1), Len(lagging1))
    IN  IF min_len < 5 THEN InsufficientData("Not enough overlapping data")
        ELSE
        LET leading == Prefix(leading1, min_len)
            lagging == Prefix(lagging1, min_len)
            n == Len(leading)
            sum_x == Sum(leading)
            sum_y == Sum(lagging)
            sum_xy == Sum([i \in 1..n |-> leading[i] * lagging[i]])
            sum_x2 == Sum([i \in 1..n |-> leading[i] * leading[i]])
            sum_y2 == Sum([i \in 1..n |-> lagging[i] * lagging[i]])
            numerator == n * sum_xy - sum_x * sum_y
            denominator2 == (n * sum_x2 - sum_x * sum_x) * (n * sum_y2 - sum_y * sum_y)
            \* abs(correlation) >= sqrt(p / q)
            AbsAtLeast(p, q) == q * numerator * numerator >= p * denominator2
            pairs == [i \in 1..n |-> <<leading[i], lagging[i]>>]
        IN  IF denominator2 = 0
            THEN [correlation |-> <<0, 1>>, strength |-> "no_variance",
                  lag_days |-> lag_days, pairs |-> pairs]
            ELSE [correlation |-> <<numerator, denominator2>>,
                  strength |-> IF AbsAtLeast(49, 100) THEN "strong"
                               ELSE IF AbsAtLeast(4, 25) THEN "moderate"
                               ELSE IF AbsAtLeast(1, 25) THEN "weak"
                               ELSE "negligible",
                  direction |-> IF numerator > 0 THEN "positive" ELSE "negative",
                  lag_days |-> lag_days,
                  data_points |-> n,
                  pairs |-> pairs]

\* weekly series, in small units: the leading one rises, falls, wobbles or stays
\* flat; the lagging one is the revenue of the same weeks
LeadingShapes == {"rising", "falling", "wobbling", "flat"}
LeadingSeries(shape, len) ==
    [i \in 1..len |-> IF shape = "rising" THEN i
                       ELSE IF shape = "falling" THEN 10 - i
                       ELSE IF shape = "wobbling" THEN 1 + ((i * i) % 3) + (i % 2)
                       ELSE 1]
LaggingSeries(len) == [i \in 1..len |-> i + 3 * (i % 2)]

CorrelationArgs ==
    { [leading_signal |-> LeadingSeries(shape, m), lagging_signal |-> LaggingSeries(n),
       lag_days |-> lag] :
        shape \in LeadingShapes, m \in 0..MaxSeriesLen, n \in 0..MaxSeriesLen,
        lag \in LAG_PERIODS }

call_calculate_signal_correlation ==
    /\ args # NoArgs
    /\ result = NotReturned
    /\ result' = Returned(calculate_signal_correlation(
                            args.leading_signal, args.lagging_signal, args.lag_days))
    /\ UNCHANGED <<ledgerVars, now, ops, concVars, changelogVars, args, source, correlation_data>>

InitCorrelation ==
    /\ ledger = <<>>
    /\ micro = 0
    /\ now = 0
    /\ resp = "none"
    /\ ops = 0
    /\ pc = <<>>
    /\ loc = <<>>
    /\ req = <<>>
    /\ acked = {}
    /\ changelog = <<>>
    /\ cache = NoCache
    /\ budget = NoCall
    /\ args \in CorrelationArgs
    /\ result = NotReturned
    /\ source = 0
    /\ correlation_data = NoRecord

NextCorrelation == call_calculate_signal_correlation

SpecCorrelation == InitCorrelation /\ [][NextCorrelation]_vars

\* the positions t for which the pair (leading[t], lagging[t + lag_days]) exists
AlignedAt(leading_signal, lagging_signal, lag_days) ==
    { t \in 1..Len(leading_signal) : t + lag_days <= Len(lagging_signal) }

\* C23: calculate_signal_correlation returns the insufficient-data result whenever
\* fewer than 5 aligned pairs (leading[t], lagging[t + lag_days]) exist; whenever it
\* returns a correlation, that was computed from at least 5 pairs, all of them
\* aligned at the reported lag_days.
C23_FiveAlignedPairs ==
    result # NotReturned =>
        LET aligned == AlignedAt(args.leading_signal, args.lagging_signal, args.lag_days)
            r == result[1]
        IN  /\ Cardinality(aligned) < 5 =>
                    (r.strength = "insufficient_data" /\ r.correlation = <<0, 1>>)
            /\ r.strength # "insufficient_data" =>
                    /\ Len(r.pairs) >= 5
                    /\ r.lag_days = args.lag_days
                    /\ \A i \in 1..Len(r.pairs) :
                          /\ i \in aligned
                          /\ r.pairs[i] = <<args.leading_signal[i],
                                            args.lagging_signal[i + args.lag_days]>>

(***************************************************************************)
(* multi_signal.py.  A ROAS is in hundredths; a score is in units of       *)
(* 1/3000, so that value / target / 1.5 is exact for the target 2.0; a     *)
(* weight is in hundredths.                                                *)
(***************************************************************************)
One == 3000
ROAS_TARGET == 200
SIGNAL_WEIGHTS ==
    [kendall_last_click |-> 30, kendall_first_click |-> 20, platform_reported |-> 15,
     session_quality |-> 25, trend |-> 10]
CONFIDENCE_THRESHOLDS == [high |-> 20, medium |-> 10, low |-> 3]

Max(a, b) == IF a > b THEN a ELSE b

normalize_score(value, target, higher_is_better) ==
    IF target = 0 THEN One \div 2
    ELSE IF higher_is_better
         THEN Min(One, (2 * One * value) \div (3 * target))
         ELSE Min(One, Max(0, 2 * One - (One * value) \div target))

\* the composite score comes in units of 1/300000 (score times weight); the
\* confidence compares the sample standard deviation s of the three ROAS scores
\* with 0.15 and 0.30 through 6 s^2 = 3 sum(x^2) - sum(x)^2
calculate_weighted_score(platform_roas, kendall_lc_roas, kendall_fc_roas, session_quality_score, trend_score) ==
    LET platform_score == normalize_score(platform_roas, ROAS_TARGET, TRUE)
        kendall_lc_score == normalize_score(kendall_lc_roas, ROAS_TARGET, TRUE)
        kendall_fc_score == normalize_score(kendall_fc_roas, ROAS_TARGET, TRUE)
        weighted == kendall_lc_score * SIGNAL_WEIGHTS.kendall_last_click
                    + kendall_fc_score * SIGNAL_WEIGHTS.kendall_first_click
                    + platform_score * SIGNAL_WEIGHTS.platform_reported
                    + session_quality_score * SIGNAL_WEIGHTS.session_quality
                    + trend_score * SIGNAL_WEIGHTS.trend
        sum == platform_score + kendall_lc_score + kendall_fc_score
        sum2 == platform_score * platform_score + kendall_lc_score * kendall_lc_score
                + kendall_fc_score * kendall_fc_score
        six_var == 3 * sum2 - sum * sum
        StdBelow(hundredths) ==
            six_var < 6 * ((hundredths * One) \div 100) * ((hundredths * One) \div 100)
    IN  [weighted |-> weighted,
         confidence |-> IF StdBelow(15) THEN "high"
                        ELSE IF StdBelow(30) THEN "medium"
                        ELSE "low"]

(***************************************************************************)
(* SpecScore: calculate_weighted_score on drawn arguments                  *)
(***************************************************************************)
RoasInputs == {-150, 0, 150, 300, 600}
ScoreInputs == {0, One \div 2, One}
ScoreArgs ==
    [platform_roas : RoasInputs, kendall_lc_roas : RoasInputs, kendall_fc_roas : RoasInputs,
     session_quality_score : ScoreInputs, trend_score : ScoreInputs]

call_calculate_weighted_score ==
    /\ args # NoArgs
    /\ result = NotReturned
    /\ result' = Returned(calculate_weighted_score(
                            args.platform_roas, args.kendall_lc_roas, args.kendall_fc_roas,
                            args.session_quality_score, args.trend_score))
    /\ UNCHANGED <<ledgerVars, now, ops, concVars, changelogVars, args, source, correlation_data>>

InitScore ==
    /\ ledger = <<>>
    /\ micro = 0
    /\ now = 0
    /\ resp = "none"
    /\ ops = 0
    /\ pc = <<>>
    /\ loc = <<>>
    /\ req = <<>>
    /\ acked = {}
    /\ changelog = <<>>
    /\ cache = NoCache
    /\ budget = NoCall
    /\ args \in ScoreArgs
    /\ result = NotReturned
    /\ source = 0
    /\ correlation_data = NoRecord

NextScore == call_calculate_weighted_score

SpecScore == InitScore /\ [][NextScore]_vars

\* C25: the composite score lies in [0, 1] for all ROAS inputs and all session
\* quality and trend scores in [0, 1]; normalize_score returns a value in [0, 1] for
\* every value and target; the five weights sum to 1.0.
C25_ScoreInUnitInterval ==
    result # NotReturned =>
        /\ SIGNAL_WEIGHTS.kendall_last_click + SIGNAL_WEIGHTS.kendall_first_click
              + SIGNAL_WEIGHTS.platform_reported + SIGNAL_WEIGHTS.session_quality
              + SIGNAL_WEIGHTS.trend = 100
        /\ \A value \in {args.platform_roas, args.kendall_lc_roas, args.kendall_fc_roas},
              target \in {0, ROAS_TARGET}, higher_is_better \in BOOLEAN :
                /\ normalize_score(value, target, higher_is_better) >= 0
                /\ normalize_score(value, target, higher_is_better) <= One
        /\ result[1].weighted >= 0
        /\ result[1].weighted <= 100 * One

(***************************************************************************)
(* SpecView: one campaign of get_multi_signal_campaign_view, on the path   *)
(* that reads the Kendall ads report and on the fallback path.  A campaign *)
(* name is the sequence of its lower-case words; percentages are in tenths *)
(* of a percent.                                                           *)
(***************************************************************************)
calculate_confidence_from_volume(orders) ==
    IF orders >= CONFIDENCE_THRESHOLDS.high THEN "high"
    ELSE IF orders >= CONFIDENCE_THRESHOLDS.medium THEN "medium"
    ELSE IF orders >= CONFIDENCE_THRESHOLDS.low THEN "low"
    ELSE "very_low"

\* round(a / b) for b > 0
Round(a, b) == (2 * a + b) \div (2 * b)

NoTrend == [direction |-> "stable", change_pct |-> 0, score |-> One \div 2]

calculate_trend_from_timeframes(roas_7d, roas_30d) ==
    IF roas_30d = 0
    THEN [direction |-> "unknown", change_pct |-> 0, score |-> One \div 2]
    ELSE LET change_pct == ((roas_7d - roas_30d) * 1000) \div roas_30d
         IN  [direction |-> IF change_pct > 100 THEN "improving"
                            ELSE IF change_pct < -100 THEN "declining"
                            ELSE "stable",
              change_pct |-> change_pct,
              \* round(max(0, min(1, (change_pct + 30) / 60)), 2)
              score |-> (One \div 100) * Max(0, Min(100, Round(change_pct + 300, 6)))]

RoleKeywords ==
    <<[role |-> "awareness",
       kw |-> {"tof", "prospecting", "awareness", "cold", "discovery"}],
      [role |-> "consideration", kw |-> {"mof", "consideration", "engaged"}],
      [role |-> "conversion", kw |-> {"bof", "retargeting", "cart", "checkout"}],
      [role |-> "retention", kw |-> {"retention", "past customer", "repeat", "loyalty"}]>>

classify_campaign_role(campaign_name, kendall_fc_roas, kendall_lc_roas, nc_percent) ==
    LET named == { i \in 1..Len(RoleKeywords) :
                     \E j \in 1..Len(campaign_name) : campaign_name[j] \in RoleKeywords[i].kw }
        \* fc_to_lc_ratio > 0.9, < 0.5; the ratio is 0 when kendall_lc_roas <= 0
        ratio_above_09 == kendall_lc_roas > 0 /\ 10 * kendall_fc_roas > 9 * kendall_lc_roas
        ratio_below_05 == kendall_lc_roas <= 0 \/ 2 * kendall_fc_roas < kendall_lc_roas
    IN  IF named # {}
        THEN RoleKeywords[CHOOSE i \in named : \A k \in named : i <= k].role
        ELSE IF ratio_above_09 /\ nc_percent > 700 THEN "awareness"
        ELSE IF ratio_below_05 /\ nc_percent < 300 THEN "retention"
        ELSE IF nc_percent > 500 THEN "consideration"
        ELSE "mixed"

\* variant of infer_recommendation without the separate rules for awareness
infer_recommendation_one_table(kendall_lc_roas, role, session_quality, attribution_gap, trend_data) ==
    LET trend_direction == trend_data.direction
        trend_pct == trend_data.change_pct
    IN  IF kendall_lc_roas >= 300 /\ 2 * session_quality >= One
        THEN IF trend_direction = "improving"
             THEN "Scale aggressively - strong performer with positive momentum"
             ELSE IF trend_direction = "declining"
             THEN "Maintain - strong performer but declining trend, watch closely"
             ELSE "Scale - strong performer across signals"
        ELSE IF kendall_lc_roas >= 200
        THEN IF trend_direction = "improving" /\ trend_pct > 150
             THEN "Consider scaling - meeting targets with improving trend"
             ELSE IF trend_direction = "declining" /\ trend_pct < -150
             THEN "Watch closely - meeting targets but declining trend"
             ELSE "Maintain - meeting targets"
        ELSE IF kendall_lc_roas >= 100
        THEN IF trend_direction = "improving" /\ trend_pct > 200
             THEN "Maintain - below target but strong improvement trend"
             ELSE IF trend_direction = "declining"
             THEN "Review - below target and declining, consider reducing budget"
             ELSE "Watch - below target, monitor for improvement"
        ELSE IF kendall_lc_roas > 0
        THEN IF trend_direction = "improving" /\ trend_pct > 300
             THEN "Watch - underperforming but strong recovery trend"
             ELSE "Review - underperforming, consider reducing budget"
        ELSE "Cut - no attributed revenue"

\* _infer_recommendation; trend_data is NoTrend when the caller passes none
infer_recommendation(kendall_lc_roas, role, session_quality, attribution_gap, trend_data) ==
    LET trend_direction == trend_data.direction
        trend_pct == trend_data.change_pct
    IN  IF role = "awareness"
        THEN IF 2 * session_quality >= One
             THEN IF trend_direction = "declining" /\ trend_pct < -200
                  THEN "Review creative - awareness campaign with declining performance"
                  ELSE "Maintain - awareness campaign with decent traffic quality"
             ELSE "Review creative - awareness campaign with poor traffic quality"
        ELSE IF kendall_lc_roas >= 300 /\ 2 * session_quality >= One
        THEN IF trend_direction = "improving"
             THEN "Scale aggressively - strong performer with positive momentum"
             ELSE IF trend_direction = "declining"
             THEN "Maintain - strong performer but declining trend, watch closely"
             ELSE "Scale - strong performer across signals"
        ELSE IF kendall_lc_roas >= 200
        THEN IF trend_direction = "improving" /\ trend_pct > 150
             THEN "Consider scaling - meeting targets with improving trend"
             ELSE IF trend_direction = "declining" /\ trend_pct < -150
             THEN "Watch closely - meeting targets but declining trend"
             ELSE "Maintain - meeting targets"
        ELSE IF kendall_lc_roas >= 100
        THEN IF trend_direction = "improving" /\ trend_pct > 200
             THEN "Maintain - below target but strong improvement trend"
             ELSE IF trend_direction = "declining"
             THEN "Review - below target and declining, consider reducing budget"
             ELSE "Watch - below target, monitor for improvement"
        ELSE IF kendall_lc_roas > 0
        THEN IF trend_direction = "improving" /\ trend_pct > 300
             THEN "Watch - underperforming but strong recovery trend"
             ELSE "Review - underperforming, consider reducing budget"
        ELSE "Cut - no attributed revenue"

\* get_platform_vs_kendall_gap, the trust level only (gap_pct < 20, < 50)
get_platform_vs_kendall_gap(platform_roas, kendall_roas) ==
    LET Below(pct) ==
            IF kendall_roas = 0 THEN platform_roas <= 0
            ELSE IF kendall_roas > 0
                 THEN 100 * (platform_roas - kendall_roas) < pct * kendall_roas
                 ELSE 100 * (platform_roas - kendall_roas) > pct * kendall_roas
    IN  [trust_level |-> IF Below(20) THEN "high" ELSE IF Below(50) THEN "medium" ELSE "low"]

ConfidenceOrder == [very_low |-> 0, low |-> 1, medium |-> 2, high |-> 3]

\* min([a, b], key=confidence_order.get): the first of the two when they tie
MinConfidence(a, b) == IF ConfidenceOrder[b] < ConfidenceOrder[a] THEN b ELSE a

\* the entry appended for one campaign of ads_report_30d["camps"]
campaign_entry(camp_data) ==
    LET kendall_lc_roas_30d == camp_data.roas
        kendall_lc_roas_7d == camp_data.roas_7d
        kendall_fc_roas == (kendall_lc_roas_30d * 8) \div 10
        trend_data == calculate_trend_from_timeframes(kendall_lc_roas_7d, kendall_lc_roas_30d)
        volume_confidence == calculate_confidence_from_volume(camp_data.orders)
        scored == calculate_weighted_score(camp_data.plat_roas, kendall_lc_roas_30d,
                                           kendall_fc_roas, camp_data.session_quality,
                                           trend_data.score)
        role == classify_campaign_role(camp_data.c_name, kendall_fc_roas,
                                       kendall_lc_roas_30d, camp_data.nc_percent)
        attribution_gap == get_platform_vs_kendall_gap(camp_data.plat_roas, kendall_lc_roas_30d)
    IN  [path |-> "ads_report",
         funnel_role |-> role,
         kendall_orders |-> camp_data.orders,
         weighted_score |-> scored.weighted,
         confidence |-> MinConfidence(volume_confidence, scored.confidence),
         volume_confidence |-> volume_confidence,
         signal_confidence |-> scored.confidence,
         trend |-> trend_data,
         recommendation |-> infer_recommendation(kendall_lc_roas_30d, role,
                                camp_data.session_quality, attribution_gap, trend_data)]

\* the entry appended for one campaign on the fallback path (no Kendall ads report)
campaign_entry_fallback(camp_data) ==
    LET kendall_lc_roas == camp_data.roas
        kendall_fc_roas == (kendall_lc_roas * 7) \div 10
        trend_score == One \div 2
        scored == calculate_weighted_score(camp_data.plat_roas, kendall_lc_roas,
                                           kendall_fc_roas, camp_data.session_quality,
                                           trend_score)
        role == classify_campaign_role(camp_data.c_name, kendall_fc_roas,
                                       kendall_lc_roas, camp_data.nc_percent)
        attribution_gap == get_platform_vs_kendall_gap(camp_data.plat_roas, kendall_lc_roas)
    IN  [path |-> "fallback",
         funnel_role |-> role,
         kendall_orders |-> camp_data.orders,
         weighted_score |-> scored.weighted,
         confidence |-> scored.confidence,
         trend |-> NoTrend,
         recommendation |-> infer_recommendation(kendall_lc_roas, role,
                                camp_data.session_quality, attribution_gap, NoTrend)]

NameInputs == {<<"tof", "prospecting">>, <<"evergreen">>}
LcRoasInputs == {0, 60, 160, 240, 300, 400}
\* the 7-day ROAS in percent of the 30-day ROAS
TrendInputs == {70, 85, 100, 125}
PlatRoasInputs == {0, 300, 600}
QualityInputs == {0, (2 * One) \div 5, One \div 2, One}
OrderInputs == {0, 2, 3, 10, 25}
NcPercentInputs == {500, 800}

CampInputs ==
    { [c_name |-> name, roas |-> lc, roas_7d |-> (lc * f) \div 100, plat_roas |-> pr,
       session_quality |-> q, orders |-> o, nc_percent |-> nc] :
        name \in NameInputs, lc \in LcRoasInputs, f \in TrendInputs, pr \in PlatRoasInputs,
        q \in QualityInputs, o \in OrderInputs, nc \in NcPercentInputs }

view_campaign ==
    /\ args # NoArgs
    /\ result = NotReturned
    /\ result' = Returned(campaign_entry(args))
    /\ UNCHANGED <<ledgerVars, now, ops, concVars, changelogVars, args, source, correlation_data>>

view_campaign_fallback ==
    /\ args # NoArgs
    /\ result = NotReturned
    /\ result' = Returned(campaign_entry_fallback(args))
    /\ UNCHANGED <<ledgerVars, now, ops, concVars, changelogVars, args, source, correlation_data>>

InitView ==
    /\ ledger = <<>>
    /\ micro = 0
    /\ now = 0
    /\ resp = "none"
    /\ ops = 0
    /\ pc = <<>>
    /\ loc = <<>>
    /\ req = <<>>
    /\ acked = {}
    /\ changelog = <<>>
    /\ cache = NoCache
    /\ budget = NoCall
    /\ args \in CampInputs
    /\ result = NotReturned
    /\ source = 0
    /\ correlation_data = NoRecord

NextView == view_campaign \/ view_campaign_fallback

SpecView == InitView /\ [][NextView]_vars

\* C24: for every campaign in the view the reported confidence is the lower of the
\* volume confidence (orders >= 20 high, >= 10 medium, >= 3 low, else very_low) and
\* the signal confidence; a campaign with fewer than 3 orders is reported very_low.
C24_ConfidenceIsLower ==
    result # NotReturned =>
        LET volume == IF args.orders >= 20 THEN 3 ELSE IF args.orders >= 10 THEN 2
                      ELSE IF args.orders >= 3 THEN 1 ELSE 0
            fc == IF result[1].path = "fallback" THEN (args.roas * 7) \div 10
                  ELSE (args.roas * 8) \div 10
            signal == ConfidenceOrder[calculate_weighted_score(
                          args.plat_roas, args.roas, fc, args.session_quality,
                          result[1].trend.score).confidence]
        IN  /\ ConfidenceOrder[result[1].confidence] = Min(volume, signal)
            /\ args.orders < 3 => result[1].confidence = "very_low"

SharpDecline(trend_data) == trend_data.direction = "declining" /\ trend_data.change_pct < -200

\* what awareness campaigns of the given session quality get over all last-click
\* ROAS values, platform ROAS values and trends: <<sharp decline or not, text>>
AwarenessTexts(session_quality) ==
    { <<SharpDecline(calculate_trend_from_timeframes((x[1] * x[3]) \div 100, x[1])),
        infer_recommendation(x[1], "awareness", session_quality,
                             get_platform_vs_kendall_gap(x[2], x[1]),
                             calculate_trend_from_timeframes((x[1] * x[3]) \div 100, x[1]))>> :
        x \in LcRoasInputs \X PlatRoasInputs \X TrendInputs }

\* C26 as claimed: the recommendation of an awareness campaign depends on session
\* quality alone, whatever the last-click ROAS and the trend.
C26_AwarenessByQualityAlone ==
    (result # NotReturned /\ result[1].funnel_role = "awareness") =>
        \A r \in AwarenessTexts(args.session_quality) : r[2] = result[1].recommendation

\* C26: the recommendation of an awareness campaign depends on its session quality
\* and on whether its trend is a decline of more than 20%, and on nothing else: not
\* on the last-click ROAS, the attribution gap or the rest of the trend; below a
\* session quality of 0.5 it does not depend on the trend either.
C26_AwarenessByQualityAndDecline ==
    (result # NotReturned /\ result[1].funnel_role = "awareness") =>
        \A r \in AwarenessTexts(args.session_quality) :
            (2 * args.session_quality < One \/ r[1] = SharpDecline(result[1].trend))
                => r[2] = result[1].recommendation

\* C26 witness: an awareness campaign with decent traffic whose ROAS fell by 30% got
\* the review recommendation.
C26_Witness ==
    /\ result # NotReturned
    /\ result[1].funnel_role = "awareness"
    /\ 2 * args.session_quality >= One
    /\ SharpDecline(result[1].trend)
    /\ result[1].recommendation =
            "Review creative - awareness campaign with declining performance"

(***************************************************************************)
(* SpecPredictiveness: funnel_impact.analyze_signal_predictiveness, which  *)
(* stores the best lag of every signal and the weight suggestions in       *)
(* signal_correlations.json, interleaved with assess_funnel_impact.        *)
(* Weights are in tenths, correlations in hundredths.                      *)
(***************************************************************************)
CurrentWeights ==
    [revenue |-> 25, new_customers |-> 25, amazon |-> 20, branded_search |-> 15, mer |-> 10]

\* suggestions[signal]; a suggestion without the key "flag" has flag "none", and
\* reason names the branch whose text the code stores
calculate_weight_suggestions(best_lags) ==
    LET current == CurrentWeights
        branded_corr == best_lags["branded_search_to_revenue"].correlation
        branded_strength == best_lags["branded_search_to_revenue"].strength
        amazon_corr == best_lags["amazon_to_shopify_revenue"].correlation
        amazon_strength == best_lags["amazon_to_shopify_revenue"].strength
        nc_corr == best_lags["new_customers_to_revenue"].correlation
        nc_strength == best_lags["new_customers_to_revenue"].strength
    IN  [branded_search |->
            IF branded_strength = "strong" /\ branded_corr > 0
            THEN [current |-> current.branded_search,
                  suggested |-> Min(25, current.branded_search + 5),
                  reason |-> "Strong positive correlation", confidence |-> "high",
                  flag |-> "none"]
            ELSE IF branded_strength = "weak" \/ branded_strength = "negligible"
            THEN [current |-> current.branded_search,
                  suggested |-> Max(5, current.branded_search - 5),
                  reason |-> "Weak/negligible correlation", confidence |-> "medium",
                  flag |-> "none"]
            ELSE IF branded_corr < 0
            THEN [current |-> current.branded_search,
                  suggested |-> current.branded_search,
                  reason |-> "Negative correlation", confidence |-> "low",
                  flag |-> "investigate"]
            ELSE [current |-> current.branded_search,
                  suggested |-> current.branded_search,
                  reason |-> "Moderate correlation", confidence |-> "medium",
                  flag |-> "none"],
         amazon |->
            IF amazon_strength = "strong" /\ amazon_corr > 0
            THEN [current |-> current.amazon,
                  suggested |-> Min(30, current.amazon + 5),
                  reason |-> "Strong positive correlation", confidence |-> "high",
                  flag |-> "none"]
            ELSE IF amazon_strength = "weak" \/ amazon_strength = "negligible"
            THEN [current |-> current.amazon,
                  suggested |-> Max(10, current.amazon - 5),
                  reason |-> "Weak correlation", confidence |-> "medium",
                  flag |-> "none"]
            ELSE [current |-> current.amazon,
                  suggested |-> current.amazon,
                  reason |-> "Moderate correlation", confidence |-> "medium",
                  flag |-> "none"],
         new_customers |->
            IF nc_strength = "strong" /\ nc_corr > 0
            THEN [current |-> current.new_customers,
                  suggested |-> Min(30, current.new_customers + 5),
                  reason |-> "Strong positive correlation", confidence |-> "high",
                  flag |-> "none"]
            ELSE IF nc_strength = "weak" \/ nc_strength = "negligible"
            THEN [current |-> current.new_customers,
                  suggested |-> Max(15, current.new_customers - 5),
                  reason |-> "Weak correlation", confidence |-> "medium",
                  flag |-> "none"]
            ELSE [current |-> current.new_customers,
                  suggested |-> current.new_customers,
                  reason |-> "Moderate correlation", confidence |-> "medium",
                  flag |-> "none"]]

\* the best lag of one signal as lines 866-877 build it from the correlations:
\* strength follows |correlation| (strong from 0.7, moderate from 0.4, weak from
\* 0.2), and a series too short or flat at every lag gives correlation 0
BestInputs ==
    <<[correlation |-> 85, strength |-> "strong"],
      [correlation |-> -85, strength |-> "strong"],
      [correlation |-> 50, strength |-> "moderate"],
      [correlation |-> -50, strength |-> "moderate"],
      [correlation |-> 30, strength |-> "weak"],
      [correlation |-> -30, strength |-> "weak"],
      [correlation |-> 10, strength |-> "negligible"],
      [correlation |-> -10, strength |-> "negligible"],
      [correlation |-> 0, strength |-> "insufficient_data"],
      [correlation |-> 0, strength |-> "no_variance"]>>
CorrelationKeys ==
    {"branded_search_to_revenue", "amazon_to_shopify_revenue",
     "new_customers_to_revenue", "meta_spend_to_revenue"}
\* every signal meets every best lag: the signals take consecutive rows of BestInputs
BestLagInputs ==
    {[k \in CorrelationKeys |->
        LET shift == CASE k = "branded_search_to_revenue" -> 0
                       [] k = "amazon_to_shopify_revenue" -> 1
                       [] k = "new_customers_to_revenue" -> 2
                       [] k = "meta_spend_to_revenue" -> 3
        IN  BestInputs[((i + shift) % Len(BestInputs)) + 1]] : i \in 1..Len(BestInputs)}
\* <<days, len(get_weekly_metrics(days))>>
PeriodInputs == {<<21, 3>>, <<28, 4>>, <<60, 8>>, <<90, 12>>}
\* calculate_signal_correlation wants five points: with fewer weeks every lag of
\* every signal is insufficient_data
BestLagsOf(weeks) ==
    IF weeks < 5
    THEN {[k \in CorrelationKeys |-> [correlation |-> 0, strength |-> "insufficient_data"]]}
    ELSE BestLagInputs
ImpactInputs ==
    {[baseline |-> FunnelMetrics(1000, 1000, 1000, 1000, 1000), after |-> y] :
        y \in {FunnelMetrics(1120, 1150, 1080, 1000, 1010),
               FunnelMetrics(979, 1000, 1000, 1021, 979),
               FunnelMetrics(1021, 979, 1021, 979, 1000)}}

analyze_signal_predictiveness(days, weeks, best_lags) ==
    /\ ops < MaxOps
    /\ ops' = ops + 1
    /\ args' = [op |-> "analyze", days |-> days, weeks |-> weeks, best_lags |-> best_lags]
    /\ IF weeks < 4
       THEN /\ result' = Returned([error |-> "Need at least 4 weeks of data",
                                   weeks_available |-> weeks])
            /\ UNCHANGED correlation_data
       ELSE LET weight_suggestions == calculate_weight_suggestions(best_lags)
            IN  /\ correlation_data' =
                       Returned([best_lags |-> best_lags,
                                 weight_suggestions |-> weight_suggestions,
                                 analysis_period_days |-> days,
                                 weeks_analyzed |-> weeks,
                                 last_updated |-> now])
                /\ result' = Returned([weeks_analyzed |-> weeks, period_days |-> days,
                                       best_predictive_lags |-> best_lags,
                                       weight_suggestions |-> weight_suggestions,
                                       current_weights |-> CurrentWeights])
    /\ UNCHANGED <<ledgerVars, now, concVars, changelogVars, source>>

\* the assessment of a change whose window is complete
assess_change(a) ==
    /\ ops < MaxOps
    /\ ops' = ops + 1
    /\ args' = [op |-> "assess", baseline |-> a.baseline, after |-> a.after]
    /\ result' = Returned(assess_funnel_impact(calculate_impact(a.baseline, a.after)))
    /\ UNCHANGED <<ledgerVars, now, concVars, changelogVars, source, correlation_data>>

InitPredictiveness ==
    /\ ledger = <<>>
    /\ micro = 0
    /\ now = 0
    /\ resp = "none"
    /\ ops = 0
    /\ pc = <<>>
    /\ loc = <<>>
    /\ req = <<>>
    /\ acked = {}
    /\ changelog = <<>>
    /\ cache = NoCache
    /\ budget = NoCall
    /\ args = [op |-> "none"]
    /\ result = NotReturned
    /\ source = 0
    /\ correlation_data = NoRecord

NextPredictiveness ==
    \/ \E p \in PeriodInputs :
            \E b \in BestLagsOf(p[2]) : analyze_signal_predictiveness(p[1], p[2], b)
    \/ \E a \in ImpactInputs : assess_change(a)

SpecPredictiveness == InitPredictiveness /\ [][NextPredictiveness]_vars

SuggestedSignals == {"branded_search", "amazon", "new_customers"}
BestLagOf(signal) ==
    CASE signal = "branded_search" -> "branded_search_to_revenue"
      [] signal = "amazon" -> "amazon_to_shopify_revenue"
      [] signal = "new_customers" -> "new_customers_to_revenue"
\* the maximum and the minimum of each signal's weight
WeightLimits ==
    [branded_search |-> [max |-> 25, min |-> 5], amazon |-> [max |-> 30, min |-> 10],
     new_customers |-> [max |-> 30, min |-> 15]]

\* C22: for each of branded_search, amazon and new_customers the stored suggestion
\* is current + 0.5 capped at the signal's maximum when the best-lag correlation is
\* strong and positive, current - 0.5 floored at the signal's minimum when it is
\* weak or negligible, no change with flag investigate when it is negative (and
\* strong or moderate), and no change without a flag when it is moderate and not
\* negative.
C22_SuggestionRule ==
    correlation_data # NoRecord =>
        \A signal \in SuggestedSignals :
            LET best == correlation_data[1].best_lags[BestLagOf(signal)]
                s == correlation_data[1].weight_suggestions[signal]
            IN  /\ s.current = CurrentWeights[signal]
                /\ (best.strength = "strong" /\ best.correlation > 0) =>
                        /\ s.suggested = Min(WeightLimits[signal].max, s.current + 5)
                        /\ s.flag = "none"
                /\ best.strength \in {"weak", "negligible"} =>
                        /\ s.suggested = Max(WeightLimits[signal].min, s.current - 5)
                        /\ s.flag = "none"
                /\ (best.strength \in {"strong", "moderate"} /\ best.correlation < 0) =>
                        /\ s.suggested = s.current
                        /\ s.flag = "investigate"
                /\ (best.strength = "moderate" /\ best.correlation >= 0) =>
                        /\ s.suggested = s.current
                        /\ s.flag = "none"

====
